---------------------------- MODULE Spec2Model ----------------------------
(***************************************************************************)
(* Model of the data validation and aggregation pipeline of                *)
(* frankai-analytics/src/App.tsx: CSV row validation, the date/entity      *)
(* filter, the timeline aggregation and the trend tables.                  *)
(*                                                                         *)
(* Strings of cell values are sequences of one-character strings, so that  *)
(* the regular expressions, cleanString, toDDMMYYYY and Number() are       *)
(* computed on the characters.  The alphabet of cell values is: digits,    *)
(* letters, "-", "+", "/", " " and the token "ZWSP" (U+200B).  It holds no *)
(* "." : every finite number of the model is an integer.                   *)
(* JavaScript numbers are records [k, v]: k = "fin" with the integer v,    *)
(* or k \in {"inf", "ninf", "nan"}.                                        *)
(* Instants are counted in ticks; one day is TicksPerDay ticks (the code   *)
(* counts milliseconds).  Local time has no daylight-saving shift.         *)
(***************************************************************************)
EXTENDS Integers, Sequences, FiniteSets, TLC

VARIABLES
    fileName,           \* App state: fileName, the name of the file last selected
    pending,            \* the uploads selected whose parse has not called back
    file,               \* Papa's result of the upload: [fields, data]
    phase,              \* "parsing": complete callback pending; "loaded"
    rows,               \* App state: rows (validated, with id)
    errors,             \* App state: errors (the diagnostics list)
    dateRange,          \* App state: <<start, end>>, each an instant or Null
    entityFilterType,   \* App state: "all" | "brands" | "suppliers" | "specific"
    selectedCompanies,  \* App state: set of company names
    now,                \* the instant `new Date()` returned in the last export
    chart,              \* result of the last aggregateChartDataSeries call
    tables,             \* the tables of the last trend-table export
    trend               \* arguments and result of the last calcAvgAndTrend call

vars == <<fileName, pending, file, phase, rows, errors, dateRange, entityFilterType,
          selectedCompanies, now, chart, tables, trend>>

----------------------------------------------------------------------------
(* Bounds of the model. *)

MaxRows == 2

TicksPerDay == 2

----------------------------------------------------------------------------
(* Values, strings and numbers. *)

NaN == [k |-> "nan", v |-> 0]

Infinity == [k |-> "inf", v |-> 0]

NegInfinity == [k |-> "ninf", v |-> 0]

Fin(n) == [k |-> "fin", v |-> n]

Undefined == [t |-> "undef", s |-> <<>>, num |-> NaN]

Str(s) == [t |-> "str", s |-> s, num |-> NaN]

Num(x) == [t |-> "num", s |-> <<>>, num |-> x]

Null == [k |-> "null", v |-> 0]

Digits == {"0", "1", "2", "3", "4", "5", "6", "7", "8", "9"}

HexDigits == Digits \cup {"a", "b", "c", "d", "e", "f", "A", "B", "C", "D", "E", "F"}

DigitVal(c) ==
    CASE c = "0" -> 0 [] c = "1" -> 1 [] c = "2" -> 2 [] c = "3" -> 3
      [] c = "4" -> 4 [] c = "5" -> 5 [] c = "6" -> 6 [] c = "7" -> 7
      [] c = "8" -> 8 [] c = "9" -> 9
      [] c \in {"a", "A"} -> 10 [] c \in {"b", "B"} -> 11
      [] c \in {"c", "C"} -> 12 [] c \in {"d", "D"} -> 13
      [] c \in {"e", "E"} -> 14 [] c \in {"f", "F"} -> 15

\* the class [U+200B-U+200D, U+FEFF] that cleanString removes
IsInvisible(c) == c = "ZWSP"

\* the characters String.prototype.trim removes
IsWhiteSpace(c) == c = " "

RECURSIVE TrimLeft(_)
TrimLeft(s) ==
    IF s # <<>> /\ IsWhiteSpace(Head(s)) THEN TrimLeft(Tail(s)) ELSE s

RECURSIVE TrimRight(_)
TrimRight(s) ==
    IF s # <<>> /\ IsWhiteSpace(s[Len(s)])
    THEN TrimRight(SubSeq(s, 1, Len(s) - 1))
    ELSE s

Trim(s) == TrimRight(TrimLeft(s))

NotInvisible(c) == ~IsInvisible(c)

cleanString(val) ==
    IF val.t # "str" THEN val
    ELSE Str(Trim(SelectSeq(val.s, NotInvisible)))

AllDigits(s, from, to) == \A i \in from..to : s[i] \in Digits

\* value of the digits s[from..to] in the given base
RECURSIVE DigitsVal(_, _, _, _)
DigitsVal(s, from, to, base) ==
    IF to < from THEN 0
    ELSE base * DigitsVal(s, from, to - 1, base) + DigitVal(s[to])

RECURSIVE Pow10(_)
Pow10(n) == IF n = 0 THEN 1 ELSE 10 * Pow10(n - 1)

S_Infinity == <<"I", "n", "f", "i", "n", "i", "t", "y">>

\* position of the exponent mark in s, or 0
ExpPos(s) ==
    IF \E i \in 1..Len(s) : s[i] \in {"e", "E"}
    THEN CHOOSE i \in 1..Len(s) :
             s[i] \in {"e", "E"} /\ \A j \in 1..(i - 1) : s[j] \notin {"e", "E"}
    ELSE 0

\* an unsigned decimal literal of the alphabet: digits, or digits e digits
UnsignedDecimal(s) ==
    LET p == ExpPos(s) IN
    IF s = <<>> THEN NaN
    ELSE IF s = S_Infinity THEN Infinity
    ELSE IF p = 0
         THEN IF AllDigits(s, 1, Len(s)) THEN Fin(DigitsVal(s, 1, Len(s), 10)) ELSE NaN
    ELSE IF p > 1 /\ p < Len(s) /\ AllDigits(s, 1, p - 1) /\ AllDigits(s, p + 1, Len(s))
         THEN Fin(DigitsVal(s, 1, p - 1, 10) * Pow10(DigitsVal(s, p + 1, Len(s), 10)))
    ELSE NaN

Negate(x) ==
    CASE x.k = "fin" -> Fin(0 - x.v)
      [] x.k = "inf" -> NegInfinity
      [] x.k = "ninf" -> Infinity
      [] OTHER -> NaN

\* StringToNumber: the string is trimmed; the empty string is 0; a hex
\* literal carries no sign; a decimal literal or Infinity may carry one.
StringToNumber(s0) ==
    LET s == Trim(s0) IN
    IF s = <<>> THEN Fin(0)
    ELSE IF Len(s) > 2 /\ s[1] = "0" /\ s[2] \in {"x", "X"}
         THEN IF \A i \in 3..Len(s) : s[i] \in HexDigits
              THEN Fin(DigitsVal(s, 3, Len(s), 16))
              ELSE NaN
    ELSE IF s[1] = "-" THEN Negate(UnsignedDecimal(Tail(s)))
    ELSE IF s[1] = "+" THEN UnsignedDecimal(Tail(s))
    ELSE UnsignedDecimal(s)

\* Number(val)
Number(val) ==
    CASE val.t = "num" -> val.num
      [] val.t = "str" -> StringToNumber(val.s)
      [] OTHER -> NaN

isNaN(x) == x.k = "nan"

\* x < 0
IsNegative(x) == x.k = "ninf" \/ (x.k = "fin" /\ x.v < 0)

\* JavaScript truthiness of a number
NumTruthy(x) == ~(x.k = "nan" \/ (x.k = "fin" /\ x.v = 0))

\* a + b
NumAdd(a, b) ==
    CASE a.k = "nan" \/ b.k = "nan" -> NaN
      [] a.k = "inf" -> IF b.k = "ninf" THEN NaN ELSE Infinity
      [] a.k = "ninf" -> IF b.k = "inf" THEN NaN ELSE NegInfinity
      [] b.k = "inf" -> Infinity
      [] b.k = "ninf" -> NegInfinity
      [] OTHER -> Fin(a.v + b.v)

----------------------------------------------------------------------------
(* Schema. *)

REQUIRED_COLUMNS ==
    <<"Date", "User Email", "Company", "Role", "Last Login", "Total Activities",
      "Frank AI Searches", "Project Creations", "Messages Sent", "Material Saves",
      "Doc Uploads", "Project Shares", "Frank AI Messages", "Sample Requests",
      "Prebookings">>

NUMERIC_COLUMNS ==
    <<"Total Activities", "Frank AI Searches", "Project Creations", "Messages Sent",
      "Material Saves", "Doc Uploads", "Project Shares", "Frank AI Messages",
      "Sample Requests", "Prebookings">>

Range(s) == {s[i] : i \in 1..Len(s)}

\* row[key]
Get(row, key) == IF key \in DOMAIN row THEN row[key] ELSE Undefined

----------------------------------------------------------------------------
(* Row Normalizer and CSV Validator: parseAndValidateCSV. *)

S_Brand == <<"B", "r", "a", "n", "d">>

S_Supplier == <<"S", "u", "p", "p", "l", "i", "e", "r">>

\* /^\d{2}\/\d{2}\/\d{4}$/
MatchesDDMMYYYY(s) ==
    /\ Len(s) = 10
    /\ s[3] = "/" /\ s[6] = "/"
    /\ \A i \in {1, 2, 4, 5, 7, 8, 9, 10} : s[i] \in Digits

\* /^\d{4}-\d{2}-\d{2}$/
MatchesYYYYMMDD(s) ==
    /\ Len(s) = 10
    /\ s[5] = "-" /\ s[8] = "-"
    /\ \A i \in {1, 2, 3, 4, 6, 7, 9, 10} : s[i] \in Digits

\* a value that is no string is tested as its string form ("undefined"),
\* which matches neither shape
isValidDate(val) ==
    val.t = "str" /\ (MatchesDDMMYYYY(val.s) \/ MatchesYYYYMMDD(val.s))

\* a conversion that also rewrites a DD/MM/YYYY date, as MM/DD/YYYY
toDDMMYYYY_Swapping(val) ==
    IF val.t # "str" THEN val
    ELSE IF MatchesDDMMYYYY(val.s)
         THEN Str(SubSeq(val.s, 4, 5) \o <<"/">> \o SubSeq(val.s, 1, 2)
                  \o SubSeq(val.s, 6, 10))
    ELSE IF MatchesYYYYMMDD(val.s)
         THEN Str(SubSeq(val.s, 9, 10) \o <<"/">> \o SubSeq(val.s, 6, 7)
                  \o <<"/">> \o SubSeq(val.s, 1, 4))
    ELSE val

toDDMMYYYY(val) ==
    IF val.t # "str" THEN val
    ELSE IF MatchesDDMMYYYY(val.s) THEN val
    ELSE IF MatchesYYYYMMDD(val.s)
         THEN Str(SubSeq(val.s, 9, 10) \o <<"/">> \o SubSeq(val.s, 6, 7)
                  \o <<"/">> \o SubSeq(val.s, 1, 4))
    ELSE val

isValidRole(val) == val = Str(S_Brand) \/ val = Str(S_Supplier)

RowError(N, col, kind, value) ==
    [type |-> "error", row |-> N, col |-> col, kind |-> kind, value |-> value,
     warnings |-> <<>>]

Warning(field, kind) == [field |-> field, kind |-> kind]

\* NumericBranch with a negative value clamped to 0 instead of reported
NumericBranch_Clamped(val) ==
    IF val = Str(<<>>) \/ val = Undefined THEN "zero"
    ELSE IF isNaN(Number(val)) THEN "Non-numeric value"
    ELSE IF IsNegative(Number(val)) THEN "zero"
    ELSE "number"

\* the branch the numeric loop takes for the value of one column
NumericBranch(val) ==
    IF val = Str(<<>>) \/ val = Undefined THEN "zero"
    ELSE IF isNaN(Number(val)) THEN "Non-numeric value"
    ELSE IF IsNegative(Number(val)) THEN "Negative value"
    ELSE "number"

\* the body of data.map((row, idx) => ...), idx counted from 0
validateRow(row, idx, fields) ==
    LET InRow(k) == k \in DOMAIN row
        keys == SelectSeq(fields, InRow)
        Changed(k) == row[k].t = "str" /\ cleanString(row[k]) # row[k]
        changedKeys == SelectSeq(keys, Changed)
        trimWarnings ==
            [i \in 1..Len(changedKeys) |->
                Warning(changedKeys[i], "auto-corrected by trimming")]
        trimmed == [k \in DOMAIN row |-> cleanString(row[k])]
        rawDate == Get(trimmed, "Date")
        cleanedDate == cleanString(rawDate)
        dateOK == isValidDate(cleanedDate)
        ddmmyyyy == toDDMMYYYY(cleanedDate)
        dateErrors ==
            IF dateOK THEN <<>>
            ELSE <<RowError(idx + 2, "Date", "Invalid date format", rawDate)>>
        dateWarnings ==
            IF dateOK /\ cleanedDate # ddmmyyyy
            THEN <<Warning("Date", "auto-converted to DD/MM/YYYY")>>
            ELSE <<>>
        dated == IF dateOK THEN [trimmed EXCEPT !["Date"] = ddmmyyyy] ELSE trimmed
        role == Get(dated, "Role")
        roleErrors ==
            IF isValidRole(role) THEN <<>>
            ELSE <<RowError(idx + 2, "Role", "Invalid role", role)>>
        IsBad(col) ==
            NumericBranch(Get(dated, col)) \in {"Non-numeric value", "Negative value"}
        badCols == SelectSeq(NUMERIC_COLUMNS, IsBad)
        numericErrors ==
            [i \in 1..Len(badCols) |->
                RowError(idx + 2, badCols[i], NumericBranch(Get(dated, badCols[i])),
                         Get(dated, badCols[i]))]
        coerced ==
            [k \in DOMAIN dated \cup Range(NUMERIC_COLUMNS) |->
                IF k \in Range(NUMERIC_COLUMNS)
                THEN CASE NumericBranch(Get(dated, k)) = "zero" -> Num(Fin(0))
                       [] NumericBranch(Get(dated, k)) = "number" ->
                              Num(Number(Get(dated, k)))
                       [] OTHER -> dated[k]
                ELSE dated[k]]
    IN  [f |-> coerced,
         rowErrors |-> dateErrors \o roleErrors \o numericErrors,
         rowWarnings |-> trimWarnings \o dateWarnings]

MissingColumn(col) ==
    [type |-> "missing", row |-> 0, col |-> col, kind |-> "Missing required column",
     value |-> Undefined, warnings |-> <<>>]

RowWarnings(N, ws) ==
    [type |-> "warning", row |-> N, col |-> "", kind |-> "(warning)",
     value |-> Undefined, warnings |-> ws]

ParseFailure ==
    [type |-> "parse", row |-> 0, col |-> "", kind |-> "error.message",
     value |-> Undefined, warnings |-> <<>>]

\* a collection that lists the combined warning of a row before its errors
RECURSIVE CollectDiagnostics_WarningsFirst(_, _)
CollectDiagnostics_WarningsFirst(validatedRows, i) ==
    IF i > Len(validatedRows) THEN <<>>
    ELSE (IF validatedRows[i].rowWarnings # <<>>
          THEN <<RowWarnings(i + 1, validatedRows[i].rowWarnings)>>
          ELSE <<>>)
         \o validatedRows[i].rowErrors
         \o CollectDiagnostics_WarningsFirst(validatedRows, i + 1)

\* validatedRows.forEach((row, idx) => ...): the diagnostics of rows i..Len
RECURSIVE CollectDiagnostics(_, _)
CollectDiagnostics(validatedRows, i) ==
    IF i > Len(validatedRows) THEN <<>>
    ELSE validatedRows[i].rowErrors
         \o (IF validatedRows[i].rowWarnings # <<>>
             THEN <<RowWarnings(i + 1, validatedRows[i].rowWarnings)>>
             ELSE <<>>)
         \o CollectDiagnostics(validatedRows, i + 1)

\* a complete callback that stops at the schema check when a column is missing
parseAndValidateCSV_AbortOnMissing(results) ==
    LET Missing(col) == col \notin Range(results.fields)
        missingCols == SelectSeq(REQUIRED_COLUMNS, Missing)
        schemaErrors == [i \in 1..Len(missingCols) |-> MissingColumn(missingCols[i])]
        validatedRows ==
            IF missingCols # <<>> THEN <<>>
            ELSE [i \in 1..Len(results.data) |->
                     validateRow(results.data[i], i - 1, results.fields)]
    IN  [rows |-> validatedRows,
         errors |-> schemaErrors \o CollectDiagnostics(validatedRows, 1)]

\* the complete callback: results = [fields, data]
parseAndValidateCSV(results) ==
    LET Missing(col) == col \notin Range(results.fields)
        missingCols == SelectSeq(REQUIRED_COLUMNS, Missing)
        schemaErrors == [i \in 1..Len(missingCols) |-> MissingColumn(missingCols[i])]
        validatedRows ==
            [i \in 1..Len(results.data) |->
                validateRow(results.data[i], i - 1, results.fields)]
    IN  [rows |-> validatedRows,
         errors |-> schemaErrors \o CollectDiagnostics(validatedRows, 1)]

\* rowsWithId of handleFileChange's callback
WithId(parsedRows) ==
    [i \in 1..Len(parsedRows) |->
        [id |-> i - 1, f |-> parsedRows[i].f, rowErrors |-> parsedRows[i].rowErrors,
         rowWarnings |-> parsedRows[i].rowWarnings]]

----------------------------------------------------------------------------
(* Dates.  An instant is [k |-> "date", v |-> ticks since 1 Jan 1970, local *)
(* time] or InvalidDate.                                                    *)

InvalidDate == [k |-> "invalid", v |-> 0]

DateAt(ticks) == [k |-> "date", v |-> ticks]

IsLeap(y) == (y % 4 = 0 /\ y % 100 # 0) \/ y % 400 = 0

LeapsBefore(y) == ((y - 1) \div 4) - ((y - 1) \div 100) + ((y - 1) \div 400)

DaysBeforeYear(y) == 365 * (y - 1970) + LeapsBefore(y) - LeapsBefore(1970)

\* days of the year before month m0 (0 = January)
DaysBeforeMonth(y, m0) ==
    <<0, 31, 59, 90, 120, 151, 181, 212, 243, 273, 304, 334>>[m0 + 1]
        + (IF IsLeap(y) /\ m0 >= 2 THEN 1 ELSE 0)

DaysInMonth(y, m) ==
    IF m = 2 THEN (IF IsLeap(y) THEN 29 ELSE 28)
    ELSE IF m \in {4, 6, 9, 11} THEN 30 ELSE 31

\* new Date(y, m0, d): a month or day out of range carries over, and a year
\* 0..99 is taken as 1900 + y
NewDate(y, m0, d) ==
    LET yy == (IF y >= 0 /\ y <= 99 THEN 1900 + y ELSE y) + (m0 \div 12)
        mm == m0 % 12
    IN  DateAt((DaysBeforeYear(yy) + DaysBeforeMonth(yy, mm) + (d - 1)) * TicksPerDay)

\* date-fns parse(dateStr, 'dd/MM/yyyy') and parse(dateStr, 'yyyy-MM-dd') of
\* the day d, month m, year y read from the string: a day or month out of
\* range gives an Invalid Date
DateFnsParse(y, m, d) ==
    IF m >= 1 /\ m <= 12 /\ d >= 1 /\ d <= DaysInMonth(y, m)
    THEN DateAt((DaysBeforeYear(y) + DaysBeforeMonth(y, m - 1) + (d - 1)) * TicksPerDay)
    ELSE InvalidDate

parseDDMMYYYY(s) ==
    DateFnsParse(DigitsVal(s, 7, 10, 10), DigitsVal(s, 4, 5, 10), DigitsVal(s, 1, 2, 10))

parseYYYYMMDD(s) ==
    DateFnsParse(DigitsVal(s, 1, 4, 10), DigitsVal(s, 6, 7, 10), DigitsVal(s, 9, 10, 10))

\* the fallback new Date(dateStr) is reached by a value of neither shape;
\* for the strings of the model's alphabet, and for undefined, it is an
\* Invalid Date
parseDateString(val) ==
    IF val.t = "str" /\ MatchesDDMMYYYY(val.s)
    THEN NewDate(DigitsVal(val.s, 7, 10, 10), DigitsVal(val.s, 4, 5, 10) - 1,
                 DigitsVal(val.s, 1, 2, 10))
    ELSE IF val.t = "str" /\ MatchesYYYYMMDD(val.s)
    THEN NewDate(DigitsVal(val.s, 1, 4, 10), DigitsVal(val.s, 6, 7, 10) - 1,
                 DigitsVal(val.s, 9, 10, 10))
    ELSE InvalidDate

\* a >= b and a <= b on Date objects: false when either is invalid
DateGE(a, b) == a.k = "date" /\ b.k = "date" /\ a.v >= b.v

DateLE(a, b) == a.k = "date" /\ b.k = "date" /\ a.v <= b.v

\* date-fns isAfter, isBefore, isEqual
isAfter(a, b) == a.k = "date" /\ b.k = "date" /\ a.v > b.v

isBefore(a, b) == a.k = "date" /\ b.k = "date" /\ a.v < b.v

isEqual(a, b) == a.k = "date" /\ b.k = "date" /\ a.v = b.v

----------------------------------------------------------------------------
(* Filter Engine: isInRange and filteredRows. *)

isInRange(dateStr, range) ==
    IF range[1] = Null \/ range[2] = Null THEN TRUE
    ELSE IF dateStr.t = "str" /\ MatchesDDMMYYYY(dateStr.s)
         THEN LET d == parseDDMMYYYY(dateStr.s) IN
              /\ (isAfter(d, range[1]) \/ isEqual(d, range[1]))
              /\ (isBefore(d, range[2]) \/ isEqual(d, range[2]))
    ELSE IF dateStr.t = "str" /\ MatchesYYYYMMDD(dateStr.s)
         THEN LET d == parseYYYYMMDD(dateStr.s) IN
              /\ (isAfter(d, range[1]) \/ isEqual(d, range[1]))
              /\ (isBefore(d, range[2]) \/ isEqual(d, range[2]))
    ELSE FALSE

\* the filter predicate with 'specific' falling through to the default
PassesFilter_SpecificAsAll(r, range, filterType, selected) ==
    /\ isInRange(Get(r.f, "Date"), range)
    /\ CASE filterType = "brands" -> Get(r.f, "Role") = Str(S_Brand)
         [] filterType = "suppliers" -> Get(r.f, "Role") = Str(S_Supplier)
         [] OTHER -> TRUE

\* the predicate of rows.filter(r => ...)
PassesFilter(r, range, filterType, selected) ==
    /\ isInRange(Get(r.f, "Date"), range)
    /\ CASE filterType = "brands" -> Get(r.f, "Role") = Str(S_Brand)
         [] filterType = "suppliers" -> Get(r.f, "Role") = Str(S_Supplier)
         [] filterType = "specific" -> Get(r.f, "Company") \in selected
         [] OTHER -> TRUE

\* the rows that pass, listed last to first
FilterRows_Reversed(rs, range, filterType, selected) ==
    LET Keep(r) == PassesFilter(r, range, filterType, selected)
        kept == SelectSeq(rs, Keep)
    IN  [k \in 1..Len(kept) |-> kept[Len(kept) + 1 - k]]

FilterRows(rs, range, filterType, selected) ==
    LET Keep(r) == PassesFilter(r, range, filterType, selected) IN
    SelectSeq(rs, Keep)

filteredRows == FilterRows(rows, dateRange, entityFilterType, selectedCompanies)

----------------------------------------------------------------------------
(* Timeline Aggregator: aggregateChartDataSeries. *)

\* the elements of s, each once, in the order of first appearance (the
\* insertion order of a Set and of the keys of an object)
RECURSIVE Dedupe(_)
Dedupe(s) ==
    IF s = <<>> THEN <<>>
    ELSE LET rest == Dedupe(SubSeq(s, 1, Len(s) - 1))
             x == s[Len(s)]
         IN  IF x \in Range(rest) THEN rest ELSE Append(rest, x)

\* row[series] || 0, of a row without row errors: its measure fields hold
\* numbers
SeriesValue(row, series) ==
    LET val == Get(row.f, series) IN
    IF val.t = "num" /\ NumTruthy(val.num) THEN val.num ELSE Fin(0)

\* SkipsRow with the test left out: rows with row errors are aggregated too
SkipsRow_Never(row) == FALSE

\* if (row._rowErrors && row._rowErrors.length > 0) return;
SkipsRow(row) == Len(row.rowErrors) > 0

Absent == [k |-> "absent", v |-> 0]

\* dateMap[date][company] after the first n rows of rs, or Absent when no
\* row of that date and company was met
RECURSIVE DateMapCell(_, _, _, _, _)
DateMapCell(rs, n, date, company, series) ==
    IF n = 0 THEN Absent
    ELSE LET before == DateMapCell(rs, n - 1, date, company, series)
             row == rs[n]
         IN  IF SkipsRow(row) \/ Get(row.f, "Date") # date
                \/ Get(row.f, "Company") # company
             THEN before
             ELSE NumAdd(IF before # Absent /\ NumTruthy(before) THEN before ELSE Fin(0),
                         SeriesValue(row, series))

\* the time the sort comparator gives a DD/MM/YYYY key:
\* new Date(ya, ma - 1, da).getTime()
SortTime(date) ==
    NewDate(DigitsVal(date.s, 7, 10, 10), DigitsVal(date.s, 4, 5, 10) - 1,
            DigitsVal(date.s, 1, 2, 10)).v

\* Array.prototype.sort is stable: x goes behind the keys that are not later
RECURSIVE InsertByTime(_, _)
InsertByTime(sorted, x) ==
    IF sorted = <<>> THEN <<x>>
    ELSE IF SortTime(sorted[Len(sorted)]) <= SortTime(x) THEN Append(sorted, x)
    ELSE Append(InsertByTime(SubSeq(sorted, 1, Len(sorted) - 1), x),
                sorted[Len(sorted)])

RECURSIVE SortByTime(_)
SortByTime(keys) ==
    IF keys = <<>> THEN <<>>
    ELSE InsertByTime(SortByTime(SubSeq(keys, 1, Len(keys) - 1)), keys[Len(keys)])

\* Array.from(allCompanies)
ChartCompanies(rs) ==
    LET Kept(r) == ~SkipsRow(r)
        kept == SelectSeq(rs, Kept)
    IN  Dedupe([i \in 1..Len(kept) |-> Get(kept[i].f, "Company")])

aggregateChartDataSeries(rs, series) ==
    LET Kept(r) == ~SkipsRow(r)
        kept == SelectSeq(rs, Kept)
        companies == ChartCompanies(rs)
        dates == SortByTime(Dedupe([i \in 1..Len(kept) |-> Get(kept[i].f, "Date")]))
    IN  [series |-> series,
         chartData |->
            [i \in 1..Len(dates) |->
                [Date |-> dates[i],
                 values |->
                    [c \in Range(companies) |->
                        LET cell == DateMapCell(rs, Len(rs), dates[i], c, series) IN
                        IF cell = Absent THEN Fin(0) ELSE cell]]],
         companies |-> companies]

----------------------------------------------------------------------------
(* Trend Table Aggregator: handleGenerateTrendTablesPDF. *)

periods == <<7, 14, 30, 90, 180>>

msPerDay == TicksPerDay

LowerCase == <<"a", "b", "c", "d", "e", "f", "g", "h", "i", "j", "k", "l", "m",
               "n", "o", "p", "q", "r", "s", "t", "u", "v", "w", "x", "y", "z">>

UpperCase == <<"A", "B", "C", "D", "E", "F", "G", "H", "I", "J", "K", "L", "M",
               "N", "O", "P", "Q", "R", "S", "T", "U", "V", "W", "X", "Y", "Z">>

\* the place of a letter in the alphabet, whatever its case (0: no letter)
LetterRank(c) ==
    IF \E i \in 1..26 : LowerCase[i] = c \/ UpperCase[i] = c
    THEN CHOOSE i \in 1..26 : LowerCase[i] = c \/ UpperCase[i] = c
    ELSE 0

IsUpper(c) == \E i \in 1..26 : UpperCase[i] = c

\* a.localeCompare(b) < 0 for names made of letters: the letters decide,
\* whatever their case; a proper prefix comes first; between names that
\* differ in case only, lower case comes first at the first difference
LocaleLess(a, b) ==
    LET RECURSIVE Primary(_, _)
        \* -1, 0, 1: the comparison of the letters
        Primary(x, y) ==
            IF x = <<>> THEN (IF y = <<>> THEN 0 ELSE -1)
            ELSE IF y = <<>> THEN 1
            ELSE IF LetterRank(Head(x)) < LetterRank(Head(y)) THEN -1
            ELSE IF LetterRank(Head(x)) > LetterRank(Head(y)) THEN 1
            ELSE Primary(Tail(x), Tail(y))
        RECURSIVE CaseLess(_, _)
        CaseLess(x, y) ==
            IF x = <<>> \/ y = <<>> THEN FALSE
            ELSE IF IsUpper(Head(x)) = IsUpper(Head(y)) THEN CaseLess(Tail(x), Tail(y))
            ELSE ~IsUpper(Head(x))
    IN  Primary(a, b) = -1 \/ (Primary(a, b) = 0 /\ CaseLess(a, b))

\* Array.prototype.sort with (a, b) => a.localeCompare(b), on names
RECURSIVE InsertByName(_, _)
InsertByName(sorted, x) ==
    IF sorted = <<>> THEN <<x>>
    ELSE IF ~LocaleLess(x.s, sorted[Len(sorted)].s) THEN Append(sorted, x)
    ELSE Append(InsertByName(SubSeq(sorted, 1, Len(sorted) - 1), x),
                sorted[Len(sorted)])

\* the names left in the order of the rows
SortByName_Unsorted(names) == names

RECURSIVE SortByName(_)
SortByName(names) ==
    IF names = <<>> THEN <<>>
    ELSE InsertByName(SortByName(SubSeq(names, 1, Len(names) - 1)), names[Len(names)])

\* numericColumns.filter(col => col !== 'Total Activities').sort(localeCompare)
\* followed by 'Total Activities'
activityTypesForTable ==
    <<"Doc Uploads", "Frank AI Messages", "Frank AI Searches", "Material Saves",
      "Messages Sent", "Prebookings", "Project Creations", "Project Shares",
      "Sample Requests", "Total Activities">>

\* Number(r[activity]) || 0
NumberOrZero(val) ==
    LET n == Number(val) IN
    IF NumTruthy(n) THEN n ELSE Fin(0)

\* new Date(end.getTime() - (period - 1) * msPerDay)
PeriodStart(end, period) == DateAt(end.v - (period - 1) * msPerDay)

\* d >= periodStart && d <= end, d the parsed Date of the row
InPeriod(r, end, period) ==
    LET d == parseDateString(Get(r.f, "Date")) IN
    DateGE(d, PeriodStart(end, period)) /\ DateLE(d, end)

\* periodRows.reduce((acc, r) => acc + (Number(r[activity]) || 0), 0)
RECURSIVE SumActivity(_, _)
SumActivity(periodRows, activity) ==
    IF periodRows = <<>> THEN Fin(0)
    ELSE NumAdd(SumActivity(SubSeq(periodRows, 1, Len(periodRows) - 1), activity),
                NumberOrZero(Get(periodRows[Len(periodRows)].f, activity)))

\* the divisor of the average taken as the number of days with rows
AvgDivisor_ObservedDays(period, periodRows) ==
    LET days == {Get(periodRows[i].f, "Date") : i \in 1..Len(periodRows)} IN
    IF days = {} THEN 1 ELSE Cardinality(days)

\* const avg = actual / period
AvgDivisor(period, periodRows) == period

\* (num / den).toFixed(1), in tenths: the nearest tenth, the larger one of
\* two equally near (exact for the sums of the model, all below 27)
toFixed1(num, den) ==
    CASE num.k = "fin" /\ num.v >= 0 -> Fin((20 * num.v + den) \div (2 * den))
      [] num.k = "fin" /\ num.v < 0 -> Fin(0 - ((20 * (0 - num.v) + den) \div (2 * den)))
      [] OTHER -> num

\* the Avg and Actual cells of one period
PeriodCells(periodRows, activity, period) ==
    LET actual == SumActivity(periodRows, activity)
        divisor == AvgDivisor(period, periodRows)
    IN  [avg |-> [num |-> actual, den |-> divisor],
         avgText |-> toFixed1(actual, divisor),
         actual |-> actual]

\* thisVal > nextVal on the numbers parseFloat reads from two Avg cells
NumGreater(a, b) ==
    /\ a.k # "nan" /\ b.k # "nan"
    /\ \/ (a.k = "inf" /\ b.k # "inf")
       \/ (b.k = "ninf" /\ a.k # "ninf")
       \/ (a.k = "fin" /\ b.k = "fin" /\ a.v > b.v)

\* the text colour didParseCell gives the Avg cell of period index p
Indicator(cells, p) ==
    IF p >= Len(periods) THEN "none"
    ELSE IF isNaN(cells[p].avgText) \/ isNaN(cells[p + 1].avgText) THEN "none"
    ELSE IF NumGreater(cells[p].avgText, cells[p + 1].avgText) THEN "green"
    ELSE IF NumGreater(cells[p + 1].avgText, cells[p].avgText) THEN "red"
    ELSE "yellow"

S_Total_Activities ==
    <<"T", "o", "t", "a", "l", " ", "A", "c", "t", "i", "v", "i", "t", "i", "e", "s">>

\* createSummaryTable(companies, title, pageY): one row per company, then
\* the total row; every body row gets indicators
createSummaryTable(originalRows, companies, title, end) ==
    LET RowCells(Of(_)) ==
            [p \in 1..Len(periods) |->
                LET InP(r) == InPeriod(r, end, periods[p]) /\ Of(r) IN
                PeriodCells(SelectSeq(originalRows, InP), "Total Activities", periods[p])]
        CompanyRow(company) ==
            LET Of(r) == Get(r.f, "Company") = company
                cells == RowCells(Of)
            IN  [label |-> company, total |-> FALSE, cells |-> cells,
                 indicator |-> [p \in 1..Len(periods) |-> Indicator(cells, p)]]
        totalRow ==
            LET Of(r) == Get(r.f, "Company") \in Range(companies)
                cells == RowCells(Of)
            IN  [label |-> Str(S_Total_Activities), total |-> TRUE, cells |-> cells,
                 indicator |-> [p \in 1..Len(periods) |-> Indicator(cells, p)]]
    IN  [title |-> title,
         body |-> [i \in 1..Len(companies) |-> CompanyRow(companies[i])] \o <<totalRow>>]

\* the page of one company: one row per activity type, Total Activities
\* last; the last row gets no indicator
CompanyTable(originalRows, company, end) ==
    LET Of(r) == Get(r.f, "Company") = company
        allRowsForCompany == SelectSeq(originalRows, Of)
        Cells(activity) ==
            [p \in 1..Len(periods) |->
                LET InP(r) == InPeriod(r, end, periods[p]) IN
                PeriodCells(SelectSeq(allRowsForCompany, InP), activity, periods[p])]
    IN  [company |-> company,
         body |->
            [i \in 1..Len(activityTypesForTable) |->
                LET cells == Cells(activityTypesForTable[i]) IN
                [activity |-> activityTypesForTable[i],
                 cells |-> cells,
                 indicator |->
                    [p \in 1..Len(periods) |->
                        IF i < Len(activityTypesForTable)
                        THEN Indicator(cells, p)
                        ELSE "none"]]]]

\* companies: those of aggregateChartDataSeries(rows, 'Total Activities');
\* companies.filter(company => rows.some(row => row['Company'] === company
\*                                            && row['Role'] === role))
InScope(rs, companies, role) ==
    LET Has(company) ==
            \E i \in 1..Len(rs) :
                Get(rs[i].f, "Company") = company /\ Get(rs[i].f, "Role") = Str(role)
    IN  SelectSeq(companies, Has)

brandsInScope(rs, filterType) ==
    IF filterType \in {"all", "specific", "brands"}
    THEN InScope(rs, ChartCompanies(rs), S_Brand)
    ELSE <<>>

suppliersInScope(rs, filterType) ==
    IF filterType \in {"all", "specific", "suppliers"}
    THEN InScope(rs, ChartCompanies(rs), S_Supplier)
    ELSE <<>>

\* the tables handleGenerateTrendTablesPDF writes when the clock reads end
TrendTables(rs, filterType, end) ==
    LET brands == brandsInScope(rs, filterType)
        suppliers == suppliersInScope(rs, filterType)
        allCompaniesInOrder == brands \o suppliers
    IN  [generated |-> TRUE,
         summaries |->
            (IF Len(brands) > 0
             THEN <<createSummaryTable(rs, SortByName(brands), "Brands", end)>>
             ELSE <<>>)
            \o (IF Len(suppliers) > 0
                THEN <<createSummaryTable(rs, SortByName(suppliers), "Suppliers", end)>>
                ELSE <<>>),
         companyTables |->
            [i \in 1..Len(allCompaniesInOrder) |->
                CompanyTable(rs, allCompaniesInOrder[i], end)]]

----------------------------------------------------------------------------
(* Cell values of the uploads the model draws from. *)

S_Empty == Str(<<>>)

D_30_06_2024 == <<"3", "0", "/", "0", "6", "/", "2", "0", "2", "4">>

D_01_07_2024 == <<"0", "1", "/", "0", "7", "/", "2", "0", "2", "4">>

D_24_06_2024 == <<"2", "4", "/", "0", "6", "/", "2", "0", "2", "4">>

D_23_06_2024 == <<"2", "3", "/", "0", "6", "/", "2", "0", "2", "4">>

ISO_2024_06_30 == <<"2", "0", "2", "4", "-", "0", "6", "-", "3", "0">>

ISO_2024_06_17 == <<"2", "0", "2", "4", "-", "0", "6", "-", "1", "7">>

BAD_30_06_2024 == <<"3", "0", "-", "0", "6", "-", "2", "0", "2", "4">>

S_Acme == <<"A", "c", "m", "e">>

S_Globex == <<"G", "l", "o", "b", "e", "x">>

S_beta == <<"b", "e", "t", "a">>

S_Zeta == <<"Z", "e", "t", "a">>

\* a parsed record: a key whose cell is Undefined is absent (a short line)
MkRow(date, company, role, total, searches, prebookings) ==
    LET full ==
            [c \in Range(REQUIRED_COLUMNS) |->
                CASE c = "Date" -> date
                  [] c = "Company" -> company
                  [] c = "Role" -> role
                  [] c = "Total Activities" -> total
                  [] c = "Frank AI Searches" -> searches
                  [] c = "Prebookings" -> prebookings
                  [] OTHER -> S_Empty]
    IN  [c \in {k \in Range(REQUIRED_COLUMNS) : full[k] # Undefined} |-> full[c]]

ValidateDates ==
    {Str(D_30_06_2024), Str(ISO_2024_06_30), Str(BAD_30_06_2024),
     Str(<<" ">> \o D_30_06_2024)}

ValidateRoles ==
    {Str(S_Brand), Str(S_Supplier), Str(<<"b", "r", "a", "n", "d">>),
     Str(S_Brand \o <<" ">>)}

ValidateTotals ==
    {S_Empty, Str(<<"7">>), Str(<<"-", "3">>), Str(<<"a", "b", "c">>),
     Str(S_Infinity), Str(<<"-">> \o S_Infinity), Str(<<"1", "e", "1">>),
     Str(<<"0", "x", "1", "A">>), Str(<<" ", "7">>), Str(<<"7", "ZWSP">>)}

ValidatePrebookings == {S_Empty, Str(<<"2">>), Str(<<"-", "1">>), Undefined}

ValidatePool ==
    {MkRow(d, Str(S_Acme), r, t, S_Empty, p) :
        d \in ValidateDates, r \in ValidateRoles, t \in ValidateTotals,
        p \in ValidatePrebookings}

TimelineDates == {Str(D_30_06_2024), Str(D_01_07_2024), Str(ISO_2024_06_17)}

\* <<Total Activities, Frank AI Searches>>
TimelineMeasures ==
    {<<Str(<<"1">>), Str(<<"2">>)>>, <<Str(<<"7">>), S_Empty>>,
     <<Str(<<"-", "3">>), Str(<<"2">>)>>, <<Str(S_Infinity), Str(<<"1">>)>>}

TimelinePool ==
    {MkRow(d, Str(c), Str(S_Brand), m[1], m[2], S_Empty) :
        d \in TimelineDates, c \in {S_Acme, S_Globex}, m \in TimelineMeasures}

\* the sequences of at most n elements of S
SeqsUpTo(S, n) == UNION {[1..k -> S] : k \in 0..n}

\* <<Date, Company, Role, Total Activities, Frank AI Searches>>
TrendPool ==
    {MkRow(Str(r[1]), Str(r[2]), Str(r[3]), Str(r[4]), Str(r[5]), S_Empty) :
        r \in {<<D_30_06_2024, S_Acme, S_Brand, <<"1">>, <<"1">> >>,
               <<D_24_06_2024, S_Acme, S_Brand, <<"7">>, <<>> >>,
               <<D_30_06_2024, S_Globex, S_Brand, <<"2">>, <<"2">> >>,
               <<D_30_06_2024, S_beta, S_Supplier, <<"3">>, <<>> >>,
               <<D_30_06_2024, S_Acme, <<"b", "r", "a", "n", "d">>, <<"5">>, <<>> >>,
               <<D_23_06_2024, S_Globex, S_Brand, <<"-", "3">>, <<>> >>,
               <<D_01_07_2024, S_Zeta, S_Supplier, <<"7">>, <<"1">> >>}}

\* the instants of the day 30/06/2024 at which an export is made: its
\* first, at midnight, and its last
ExportInstants ==
    {NewDate(2024, 5, 30).v + tick : tick \in {0, TicksPerDay - 1}}

NoChart == [series |-> "", chartData |-> <<>>, companies |-> <<>>]

NoTables == [generated |-> FALSE, summaries |-> <<>>, companyTables |-> <<>>]

NoTrend == [called |-> FALSE]

\* file.name of the one file the single-upload specifications parse
UploadName == "upload.csv"

----------------------------------------------------------------------------
(* Upload of one file: the parse and its callback in handleFileChange. *)

\* Papa's complete callback, then the callback of handleFileChange
ParseComplete ==
    /\ phase = "parsing"
    /\ LET parsed == parseAndValidateCSV(file) IN
         /\ rows' = WithId(parsed.rows)
         /\ errors' = parsed.errors
    /\ phase' = "loaded"
    /\ UNCHANGED <<fileName, pending, trend,
                   file, dateRange, entityFilterType, selectedCompanies, now,
                   chart, tables>>

\* Papa's error callback, then the callback of handleFileChange
ParseError ==
    /\ phase = "parsing"
    /\ rows' = <<>>
    /\ errors' = <<ParseFailure>>
    /\ phase' = "failed"
    /\ UNCHANGED <<fileName, pending, trend,
                   file, dateRange, entityFilterType, selectedCompanies, now,
                   chart, tables>>

InitValidate ==
    /\ file \in {[fields |-> REQUIRED_COLUMNS, data |-> <<r>>] : r \in ValidatePool}
    /\ phase = "parsing"
    /\ rows = <<>>
    /\ errors = <<>>
    /\ dateRange = <<Null, Null>>
    /\ entityFilterType = "all"
    /\ selectedCompanies = {}
    /\ now = 0
    /\ chart = NoChart
    /\ tables = NoTables
    /\ trend = NoTrend
    /\ fileName = UploadName
    /\ pending = <<>>

NextValidate == ParseComplete \/ ParseError

SpecValidate == InitValidate /\ [][NextValidate]_vars

----------------------------------------------------------------------------
(* Claims about validation. *)

Cleaned(raw, col) == cleanString(Get(raw, col))

MeasureEmpty(val) == val = S_Empty \/ val = Undefined

MeasureNegative(val) == ~MeasureEmpty(val) /\ IsNegative(Number(val))

MeasureNonNumeric(val) == ~MeasureEmpty(val) /\ isNaN(Number(val))

MeasureAcceptable(val) ==
    MeasureEmpty(val) \/ (~isNaN(Number(val)) /\ ~IsNegative(Number(val)))

HasError(row, col, kind) ==
    \E i \in 1..Len(row.rowErrors) :
        row.rowErrors[i].col = col /\ row.rowErrors[i].kind = kind

\* C1: a validated row has no row errors iff its cleaned Date has one of
\* the two accepted shapes, its cleaned Role is exactly Brand or Supplier and
\* every measure is empty, missing or a non-negative number; a negative
\* measure gets a "Negative value" error and a non-numeric one a
\* "Non-numeric value" error, and the field keeps the offending value.
C1_RowErrorsIffValid ==
    phase = "loaded" =>
        \A i \in 1..Len(rows) :
            LET raw == file.data[i]
                row == rows[i]
            IN  /\ (row.rowErrors = <<>>) <=>
                       /\ Cleaned(raw, "Date").t = "str"
                       /\ \/ MatchesDDMMYYYY(Cleaned(raw, "Date").s)
                          \/ MatchesYYYYMMDD(Cleaned(raw, "Date").s)
                       /\ Cleaned(raw, "Role") \in {Str(S_Brand), Str(S_Supplier)}
                       /\ \A col \in Range(NUMERIC_COLUMNS) :
                              MeasureAcceptable(Cleaned(raw, col))
                /\ \A col \in Range(NUMERIC_COLUMNS) :
                       /\ MeasureNegative(Cleaned(raw, col)) =>
                              /\ HasError(row, col, "Negative value")
                              /\ row.f[col] = Cleaned(raw, col)
                       /\ MeasureNonNumeric(Cleaned(raw, col)) =>
                              /\ HasError(row, col, "Non-numeric value")
                              /\ row.f[col] = Cleaned(raw, col)

\* C1 witness: a row whose Total Activities "-3" got the negative-value
\* error and was not replaced by 0.
C1_Witness ==
    /\ phase = "loaded"
    /\ Len(rows) = 1
    /\ Get(file.data[1], "Total Activities") = Str(<<"-", "3">>)
    /\ HasError(rows[1], "Total Activities", "Negative value")
    /\ rows[1].f["Total Activities"] = Str(<<"-", "3">>)

\* C2: on every row without row errors each of the 10 measure fields holds
\* a non-negative finite number.
C2_ErrorFreeMeasuresFinite ==
    phase = "loaded" =>
        \A i \in 1..Len(rows) :
            rows[i].rowErrors = <<>> =>
                \A col \in Range(NUMERIC_COLUMNS) :
                    /\ rows[i].f[col].t = "num"
                    /\ rows[i].f[col].num.k = "fin"
                    /\ rows[i].f[col].num.v >= 0

----------------------------------------------------------------------------
(* The timeline chart of an uploaded file. *)

\* the chart section's render: aggregateChartDataSeries(filteredRows,
\* selectedSeries), for the series chosen in the Data Series select
RenderChart(series) ==
    /\ phase = "loaded"
    /\ chart' = aggregateChartDataSeries(filteredRows, series)
    /\ UNCHANGED <<fileName, pending, trend,
                   file, phase, rows, errors, dateRange, entityFilterType,
                   selectedCompanies, now, tables>>

InitTimeline ==
    /\ file \in {[fields |-> REQUIRED_COLUMNS, data |-> d] :
                    d \in SeqsUpTo(TimelinePool, MaxRows)}
    /\ phase = "parsing"
    /\ rows = <<>>
    /\ errors = <<>>
    /\ dateRange = <<Null, Null>>
    /\ entityFilterType = "all"
    /\ selectedCompanies = {}
    /\ now = 0
    /\ chart = NoChart
    /\ tables = NoTables
    /\ trend = NoTrend
    /\ fileName = UploadName
    /\ pending = <<>>

NextTimeline ==
    \/ ParseComplete
    \/ \E series \in {"Total Activities", "Frank AI Searches"} : RenderChart(series)

SpecTimeline == InitTimeline /\ [][NextTimeline]_vars

\* the sum of the numbers f[x], x \in S
RECURSIVE SumOver(_, _)
SumOver(S, f) ==
    IF S = {} THEN Fin(0)
    ELSE LET x == CHOOSE y \in S : TRUE IN NumAdd(f[x], SumOver(S \ {x}, f))

\* the rows of the aggregator's input that have no row errors
ErrorFree(rs) == {i \in 1..Len(rs) : rs[i].rowErrors = <<>>}

\* the measure of the error-free rows of rs, by index
MeasureOf(rs, series) == [i \in ErrorFree(rs) |-> rs[i].f[series].num]

ChartCells == {<<i, c>> : i \in 1..Len(chart.chartData), c \in Range(chart.companies)}

\* C3: the value at (date, company) of the timeline is the sum of the
\* measure over the error-free input rows of exactly that Date and Company
\* (0 when there are none), every error-free row has its date and company in
\* the output, and the grand total is the sum over all error-free rows.
C3_TimelineSumsErrorFreeRows ==
    chart.series # "" =>
        LET rs == filteredRows
            m == MeasureOf(rs, chart.series)
        IN  /\ \A cell \in ChartCells :
                   chart.chartData[cell[1]].values[cell[2]] =
                       SumOver({i \in ErrorFree(rs) :
                                   /\ rs[i].f["Date"] = chart.chartData[cell[1]].Date
                                   /\ rs[i].f["Company"] = cell[2]}, m)
            /\ \A i \in ErrorFree(rs) :
                   /\ rs[i].f["Company"] \in Range(chart.companies)
                   /\ \E j \in 1..Len(chart.chartData) :
                          chart.chartData[j].Date = rs[i].f["Date"]
            /\ \A j \in 1..Len(chart.chartData) :
                   \E i \in ErrorFree(rs) : chart.chartData[j].Date = rs[i].f["Date"]
            /\ SumOver(ChartCells,
                       [cell \in ChartCells |->
                           chart.chartData[cell[1]].values[cell[2]]])
                   = SumOver(ErrorFree(rs), m)

\* C3 witness: a chart of Frank AI Searches over two rows of one date and
\* company, one of them with a row error: only the other one is summed.
C3_Witness ==
    /\ chart.series = "Frank AI Searches"
    /\ Len(rows) = 2
    /\ rows[1].rowErrors # <<>>
    /\ rows[2].rowErrors = <<>>
    /\ rows[1].f["Date"] = rows[2].f["Date"]
    /\ rows[1].f["Company"] = rows[2].f["Company"]
    /\ Len(chart.chartData) = 1
    /\ chart.chartData[1].values[rows[2].f["Company"]] = Fin(2)

----------------------------------------------------------------------------
(* The trend-table export of an uploaded file under the entity filter. *)

\* an onChange that leaves the selected companies as they are
RadioChange_KeepsSelection(value) ==
    /\ phase = "loaded"
    /\ entityFilterType' = value
    /\ tables' = NoTables
    /\ UNCHANGED <<fileName, pending, trend,
                   file, phase, rows, errors, dateRange, selectedCompanies, now, chart>>

\* the RadioGroup's onChange
RadioChange(value) ==
    /\ phase = "loaded"
    /\ entityFilterType' = value
    /\ selectedCompanies' = IF value # "specific" THEN {} ELSE selectedCompanies
    /\ tables' = NoTables
    /\ UNCHANGED <<fileName, pending, trend,
                   file, phase, rows, errors, dateRange, now, chart>>

\* the menu of the company Select: the companies of all rows
MenuCompanies == {Get(rows[i].f, "Company") : i \in 1..Len(rows)}

\* the company Select's onChange, shown when the filter type is specific
SelectChange(selected) ==
    /\ phase = "loaded"
    /\ entityFilterType = "specific"
    /\ selected \subseteq MenuCompanies
    /\ selectedCompanies' = selected
    /\ tables' = NoTables
    /\ UNCHANGED <<fileName, pending, trend,
                   file, phase, rows, errors, dateRange, entityFilterType, now, chart>>

\* the Generate Trend Tables PDF button, pressed at the instant t
GenerateTrendTablesPDF(t) ==
    /\ phase = "loaded"
    /\ now' = t
    /\ tables' = TrendTables(rows, entityFilterType, DateAt(t))
    /\ UNCHANGED <<fileName, pending, trend,
                   file, phase, rows, errors, dateRange, entityFilterType,
                   selectedCompanies, chart>>

InitTrend ==
    /\ file \in {[fields |-> REQUIRED_COLUMNS, data |-> d] :
                    d \in SeqsUpTo(TrendPool, MaxRows)}
    /\ phase = "parsing"
    /\ rows = <<>>
    /\ errors = <<>>
    /\ dateRange = <<Null, Null>>
    /\ entityFilterType = "all"
    /\ selectedCompanies = {}
    /\ now = 0
    /\ chart = NoChart
    /\ tables = NoTables
    /\ trend = NoTrend
    /\ fileName = UploadName
    /\ pending = <<>>

NextTrend ==
    \/ ParseComplete
    \/ \E value \in {"all", "brands", "suppliers", "specific"} : RadioChange(value)
    \/ \E selected \in SUBSET MenuCompanies : SelectChange(selected)
    \/ \E t \in ExportInstants : GenerateTrendTablesPDF(t)

SpecTrend == InitTrend /\ [][NextTrend]_vars

----------------------------------------------------------------------------
(* Claims about the trend tables.  They are stated of the export made in   *)
(* the current state: tables.generated, with the clock reading `now`.      *)

\* the rows of summary table s that stand for one company
EntityRows(s) == {i \in 1..Len(s.body) : ~s.body[i].total}

SummaryRows ==
    UNION {Range(tables.summaries[k].body) : k \in 1..Len(tables.summaries)}

CompanyTableRows ==
    UNION {Range(tables.companyTables[k].body) : k \in 1..Len(tables.companyTables)}

\* the Total Activities measure of the rows of `rows` with index in S,
\* read as the tables read it
MeasureAt(activity) == [i \in 1..Len(rows) |-> NumberOrZero(Get(rows[i].f, activity))]

\* C4: no Actual cell of a summary table or of a company table includes a
\* row that has a validation error: each is the sum over the error-free
\* rows of the entity that lie in the period.
C4_TrendTablesExcludeErrorRows ==
    tables.generated =>
        /\ \A k \in 1..Len(tables.summaries) :
               \A i \in 1..Len(tables.summaries[k].body) :
                   \A p \in 1..Len(periods) :
                       LET s == tables.summaries[k]
                           entities ==
                               IF s.body[i].total
                               THEN {s.body[j].label : j \in EntityRows(s)}
                               ELSE {s.body[i].label}
                       IN  s.body[i].cells[p].actual =
                               SumOver({r \in ErrorFree(rows) :
                                           /\ Get(rows[r].f, "Company") \in entities
                                           /\ InPeriod(rows[r], DateAt(now), periods[p])},
                                       MeasureAt("Total Activities"))
        /\ \A k \in 1..Len(tables.companyTables) :
               \A i \in 1..Len(tables.companyTables[k].body) :
                   \A p \in 1..Len(periods) :
                       LET t == tables.companyTables[k] IN
                       t.body[i].cells[p].actual =
                           SumOver({r \in ErrorFree(rows) :
                                       /\ Get(rows[r].f, "Company") = t.company
                                       /\ InPeriod(rows[r], DateAt(now), periods[p])},
                                   MeasureAt(t.body[i].activity))

\* the calendar day of a row, counted in days
CalendarDay(r) == parseDateString(Get(r.f, "Date")).v \div TicksPerDay

\* the row's calendar date lies in the N days that end with the as-of day
InClosedWindow(r, asOf, N) ==
    /\ parseDateString(Get(r.f, "Date")).k = "date"
    /\ CalendarDay(r) >= (asOf \div TicksPerDay) - (N - 1)
    /\ CalendarDay(r) <= asOf \div TicksPerDay

\* C5: Actual(N) is the sum of the measure over exactly the rows of the
\* entity whose calendar date lies in the closed interval from the as-of day
\* minus (N - 1) days to the as-of day, at whatever time of day the table is
\* generated.
C5_ActualOverClosedCalendarWindow ==
    tables.generated =>
        /\ \A k \in 1..Len(tables.summaries) :
               \A i \in EntityRows(tables.summaries[k]) :
                   \A p \in 1..Len(periods) :
                       LET s == tables.summaries[k] IN
                       s.body[i].cells[p].actual =
                           SumOver({r \in 1..Len(rows) :
                                       /\ Get(rows[r].f, "Company") = s.body[i].label
                                       /\ InClosedWindow(rows[r], now, periods[p])},
                                   MeasureAt("Total Activities"))
        /\ \A k \in 1..Len(tables.companyTables) :
               \A i \in 1..Len(tables.companyTables[k].body) :
                   \A p \in 1..Len(periods) :
                       LET t == tables.companyTables[k] IN
                       t.body[i].cells[p].actual =
                           SumOver({r \in 1..Len(rows) :
                                       /\ Get(rows[r].f, "Company") = t.company
                                       /\ InClosedWindow(rows[r], now, periods[p])},
                                   MeasureAt(t.body[i].activity))

\* the Avg cell of period index p is Actual / N: the quotient computed has
\* the Actual as numerator and the N calendar days as denominator, and the
\* text printed is that quotient to one decimal
AvgIsActualOverN(cells, p) ==
    /\ cells[p].avg = [num |-> cells[p].actual, den |-> periods[p]]
    /\ IF cells[p].actual.k = "fin"
       THEN LET diff == 10 * cells[p].actual.v - cells[p].avgText.v * periods[p] IN
            /\ cells[p].avgText.k = "fin"
            /\ 2 * diff <= periods[p]
            /\ 2 * diff >= 0 - periods[p]
       ELSE cells[p].avgText = cells[p].actual

\* C6: for every entity, activity type and window N, Avg(N) is Actual(N)
\* divided by N, the length of the window in calendar days, however many
\* days of the window have rows.
C6_AvgIsActualOverWindowLength ==
    tables.generated =>
        \A b \in SummaryRows \cup CompanyTableRows :
            \A p \in 1..Len(periods) : AvgIsActualOverN(b.cells, p)

\* C6 witness: the only row, 7 activities on one day of the 7-day window,
\* gives Actual(7) = 7 and Avg(7) = 1.0.
C6_Witness ==
    /\ tables.generated
    /\ Len(rows) = 1
    /\ \E b \in CompanyTableRows :
           /\ b.activity = "Total Activities"
           /\ b.cells[1].actual = Fin(7)
           /\ b.cells[1].avgText = Fin(10)

\* Avg(N) compared with Avg(next wider window), as exact quotients
ExactIndicator(cells, p) ==
    LET lhs == cells[p].actual.v * periods[p + 1]
        rhs == cells[p + 1].actual.v * periods[p]
    IN  IF lhs > rhs THEN "green" ELSE IF lhs < rhs THEN "red" ELSE "yellow"

\* C7: for every window but the widest the indicator is Higher (green) iff
\* Avg(N) > Avg(next wider window), Lower (red) iff it is less and Equal
\* (yellow) iff the two averages are exactly equal, with no rounding before
\* the comparison; the 180-day window gets none.  Stated of the rows whose
\* cells the code colours: all summary rows, and the activity rows of a
\* company table but its last.
C7_IndicatorComparesExactAverages ==
    tables.generated =>
        \A b \in SummaryRows \cup {c \in CompanyTableRows : c.activity # "Total Activities"} :
            /\ b.indicator[Len(periods)] = "none"
            /\ \A p \in 1..(Len(periods) - 1) :
                   (b.cells[p].actual.k = "fin" /\ b.cells[p + 1].actual.k = "fin")
                       => b.indicator[p] = ExactIndicator(b.cells, p)

\* the companies that got a summary row or a table of their own
TableCompanies ==
    {b.label : b \in {r \in SummaryRows : ~r.total}}
        \cup {tables.companyTables[k].company : k \in 1..Len(tables.companyTables)}

HasRole(company, role) ==
    \E i \in 1..Len(rows) :
        Get(rows[i].f, "Company") = company /\ Get(rows[i].f, "Role") = Str(role)

\* C8: the trend tables hold only entities that match the entity filter:
\* with SpecificCompanies(S) every company with a summary row or a table is
\* in S, with BrandsOnly only Brand companies appear and with SuppliersOnly
\* only Supplier companies.
C8_TablesFollowEntityFilter ==
    tables.generated =>
        /\ entityFilterType = "specific" => TableCompanies \subseteq selectedCompanies
        /\ entityFilterType = "brands" =>
               \A c \in TableCompanies : HasRole(c, S_Brand)
        /\ entityFilterType = "suppliers" =>
               \A c \in TableCompanies : HasRole(c, S_Supplier)

\* C9: in every summary table the rows of the entities are in alphabetical
\* order of company name and are followed by one total row, whose Actual(N)
\* is the sum of the Actual(N) of the entity rows and whose Avg(N) is that
\* total divided by N.
C9_SummarySortedWithTotalRow ==
    tables.generated =>
        \A k \in 1..Len(tables.summaries) :
            LET s == tables.summaries[k]
                n == Len(s.body)
            IN  /\ n >= 2
                /\ s.body[n].total
                /\ EntityRows(s) = 1..(n - 1)
                /\ \A i \in 1..(n - 2) :
                       LocaleLess(s.body[i].label.s, s.body[i + 1].label.s)
                /\ \A p \in 1..Len(periods) :
                       /\ s.body[n].cells[p].actual =
                              SumOver(1..(n - 1),
                                      [i \in 1..(n - 1) |-> s.body[i].cells[p].actual])
                       /\ AvgIsActualOverN(s.body[n].cells, p)

\* C9 witness: the upload lists Globex before Acme; the Brands summary lists
\* Acme, Globex and the total row with Actual(7) = 1 + 2.
C9_Witness ==
    /\ tables.generated
    /\ Len(rows) = 2
    /\ Get(rows[1].f, "Company") = Str(S_Globex)
    /\ \E k \in 1..Len(tables.summaries) :
           LET s == tables.summaries[k] IN
           /\ Len(s.body) = 3
           /\ s.body[1].label = Str(S_Acme)
           /\ s.body[2].label = Str(S_Globex)
           /\ s.body[1].cells[1].actual = Fin(1)
           /\ s.body[3].cells[1].actual = Fin(3)

----------------------------------------------------------------------------
(* The date range controls and the Filter Engine's date test. *)

\* getAllDates: the valid dates of the rows, as instants
getAllDates(rs) ==
    {parseDateString(Get(rs[i].f, "Date")) : i \in 1..Len(rs)} \ {InvalidDate}

minDate ==
    LET allDates == getAllDates(rows) IN
    IF allDates = {} THEN Null
    ELSE CHOOSE d \in allDates : \A e \in allDates : d.v <= e.v

maxDate ==
    LET allDates == getAllDates(rows) IN
    IF allDates = {} THEN Null
    ELSE CHOOSE d \in allDates : \A e \in allDates : d.v >= e.v

clampDate(date, min, max) ==
    IF date.v < min.v THEN min ELSE IF date.v > max.v THEN max ELSE date

subDays(date, amount) == DateAt(date.v - amount * msPerDay)

\* the days the calendar of the DateRangePicker offers
PickerDays == {NewDate(2024, 5, 24), NewDate(2024, 5, 30)}

\* onChange of the DateRangePicker: either side may come back null (a field
\* cleared, or a start picked before any end); minDate and maxDate bound the
\* days that can be picked
DateRangeChange(newValue) ==
    /\ phase = "loaded"
    /\ \A i \in 1..2 :
           newValue[i] # Null =>
               /\ minDate # Null
               /\ DateGE(newValue[i], minDate)
               /\ DateLE(newValue[i], maxDate)
    /\ dateRange' = newValue
    /\ tables' = NoTables
    /\ UNCHANGED <<fileName, pending, trend,
                   file, phase, rows, errors, entityFilterType, selectedCompanies,
                   now, chart>>

\* onClick of the presets Last 7 days (back = 6), Last 14 days (13) and
\* Last 30 days (29), rendered when minDate and maxDate exist
PresetLastDays(back) ==
    /\ phase = "loaded"
    /\ minDate # Null /\ maxDate # Null
    /\ dateRange' = <<clampDate(subDays(maxDate, back), minDate, maxDate), maxDate>>
    /\ tables' = NoTables
    /\ UNCHANGED <<fileName, pending, trend,
                   file, phase, rows, errors, entityFilterType, selectedCompanies,
                   now, chart>>

\* onClick of the preset All Time
PresetAllTime ==
    /\ phase = "loaded"
    /\ minDate # Null /\ maxDate # Null
    /\ dateRange' = <<minDate, maxDate>>
    /\ tables' = NoTables
    /\ UNCHANGED <<fileName, pending, trend,
                   file, phase, rows, errors, entityFilterType, selectedCompanies,
                   now, chart>>

FilterPool ==
    {MkRow(Str(d), Str(c[1]), Str(c[2]), Str(<<"1">>), S_Empty, S_Empty) :
        d \in {D_23_06_2024, D_24_06_2024, D_30_06_2024, D_01_07_2024, BAD_30_06_2024},
        c \in {<<S_Acme, S_Brand>>, <<S_beta, S_Supplier>>}}

InitFilter ==
    /\ file \in {[fields |-> REQUIRED_COLUMNS, data |-> d] :
                    d \in SeqsUpTo(FilterPool, MaxRows)}
    /\ phase = "parsing"
    /\ rows = <<>>
    /\ errors = <<>>
    /\ dateRange = <<Null, Null>>
    /\ entityFilterType = "all"
    /\ selectedCompanies = {}
    /\ now = 0
    /\ chart = NoChart
    /\ tables = NoTables
    /\ trend = NoTrend
    /\ fileName = UploadName
    /\ pending = <<>>

NextFilter ==
    \/ ParseComplete
    \/ \E start \in PickerDays \cup {Null}, end \in PickerDays \cup {Null} :
           DateRangeChange(<<start, end>>)
    \/ \E back \in {6, 13, 29} : PresetLastDays(back)
    \/ PresetAllTime
    \/ \E value \in {"all", "brands", "suppliers", "specific"} : RadioChange(value)
    \/ \E selected \in SUBSET MenuCompanies : SelectChange(selected)

SpecFilter == InitFilter /\ [][NextFilter]_vars

\* the calendar day of an instant
DayOf(d) == d.v \div TicksPerDay

\* C10: the date test includes a row iff its calendar date lies in the
\* closed interval [start, end], and an absent bound leaves only its own
\* side unbounded: with start set and end absent a row dated before start is
\* excluded, with end set and start absent a row dated after end is
\* excluded.  Stated of the rows whose Date is a calendar date.
C10_DateTestClosedOneSided ==
    phase = "loaded" =>
        \A i \in 1..Len(rows) :
            LET d == parseDateString(Get(rows[i].f, "Date")) IN
            d.k = "date" =>
                (isInRange(Get(rows[i].f, "Date"), dateRange)
                    <=> /\ dateRange[1] = Null \/ DayOf(d) >= DayOf(dateRange[1])
                        /\ dateRange[2] = Null \/ DayOf(d) <= DayOf(dateRange[2]))


\* the Date of row r has one of the two accepted shapes
HasDateShape(r) ==
    LET date == Get(r.f, "Date") IN
    date.t = "str" /\ (MatchesDDMMYYYY(date.s) \/ MatchesYYYYMMDD(date.s))

\* C11: whatever the date range, also with one bound or both absent, a row
\* whose Date matches neither DD/MM/YYYY nor YYYY-MM-DD is not in the
\* filtered rows.
C11_UnparseableDateExcluded ==
    phase = "loaded" =>
        \A i \in 1..Len(rows) :
            ~HasDateShape(rows[i]) => rows[i] \notin Range(filteredRows)


\* the entity test of the active entity filter
EntityTest(r) ==
    /\ entityFilterType = "brands" => Get(r.f, "Role") = Str(S_Brand)
    /\ entityFilterType = "suppliers" => Get(r.f, "Role") = Str(S_Supplier)
    /\ entityFilterType = "specific" => Get(r.f, "Company") \in selectedCompanies

IsSubsequence(out, in) ==
    \E at \in [1..Len(out) -> 1..Len(in)] :
        /\ \A k \in 1..Len(out) : out[k] = in[at[k]]
        /\ \A k \in 1..(Len(out) - 1) : at[k] < at[k + 1]

\* C13: filtering is pure.  Whatever the rows, the date range and the entity
\* filter, the filtered rows are a subsequence of the stored rows in the
\* original order, each with the rowErrors and rowWarnings it has in the
\* stored rows, and the stored rows are still the rows the upload produced.
C13_FilteringIsPure ==
    phase = "loaded" =>
        LET out == filteredRows
            stored == WithId(parseAndValidateCSV(file).rows)
        IN  /\ rows = stored
            /\ IsSubsequence(out, stored)
            /\ \A k \in 1..Len(out) :
                   /\ out[k].rowErrors = stored[out[k].id + 1].rowErrors
                   /\ out[k].rowWarnings = stored[out[k].id + 1].rowWarnings

\* C13 witness: of two stored rows the filter BrandsOnly keeps the second,
\* which has a row error, and drops the first.
C13_Witness ==
    /\ phase = "loaded"
    /\ entityFilterType = "brands"
    /\ Len(rows) = 2
    /\ filteredRows = <<rows[2]>>
    /\ rows[2].rowErrors # <<>>


\* C14: a row is never removed from the data-table preview because of its
\* errors: in every state after an upload, also after a date range has been
\* set, a row with row errors that matches the entity filter is among the
\* rows the preview shows, with its errors.  Stated of the error rows that
\* the date range does not exclude by their calendar date: those that pass
\* the date test and those whose Date has neither accepted shape.
C14_ErrorRowsStayInPreview ==
    phase = "loaded" =>
        \A i \in 1..Len(rows) :
            (/\ rows[i].rowErrors # <<>>
             /\ EntityTest(rows[i])
             /\ (~HasDateShape(rows[i]) \/ isInRange(Get(rows[i].f, "Date"), dateRange)))
                => \E k \in 1..Len(filteredRows) :
                       /\ filteredRows[k].id = rows[i].id
                       /\ filteredRows[k].rowErrors = rows[i].rowErrors


----------------------------------------------------------------------------
(* The order of the timeline's entries. *)

\* matches the shape DD/MM/YYYY and names no day of the calendar
D_31_06_2024 == <<"3", "1", "/", "0", "6", "/", "2", "0", "2", "4">>

D_02_01_2025 == <<"0", "2", "/", "0", "1", "/", "2", "0", "2", "5">>

OrderPool ==
    {MkRow(Str(d), Str(c), Str(S_Brand), Str(<<"1">>), Str(<<"2">>), S_Empty) :
        d \in {D_30_06_2024, D_01_07_2024, D_31_06_2024, D_02_01_2025, ISO_2024_06_17},
        c \in {S_Acme, S_Globex}}

InitOrder ==
    /\ file \in {[fields |-> REQUIRED_COLUMNS, data |-> d] :
                    d \in SeqsUpTo(OrderPool, MaxRows)}
    /\ phase = "parsing"
    /\ rows = <<>>
    /\ errors = <<>>
    /\ dateRange = <<Null, Null>>
    /\ entityFilterType = "all"
    /\ selectedCompanies = {}
    /\ now = 0
    /\ chart = NoChart
    /\ tables = NoTables
    /\ trend = NoTrend
    /\ fileName = UploadName
    /\ pending = <<>>

NextOrder ==
    \/ ParseComplete
    \/ \E series \in {"Total Activities", "Frank AI Searches"} : RenderChart(series)

SpecOrder == InitOrder /\ [][NextOrder]_vars

\* the year, month and day written in a DD/MM/YYYY string
Components(date) ==
    <<DigitsVal(date.s, 7, 10, 10), DigitsVal(date.s, 4, 5, 10), DigitsVal(date.s, 1, 2, 10)>>

\* a is an earlier date than b, by year, then month, then day
ComponentsLess(a, b) ==
    LET ca == Components(a)
        cb == Components(b)
    IN  \/ ca[1] < cb[1]
        \/ ca[1] = cb[1] /\ ca[2] < cb[2]
        \/ ca[1] = cb[1] /\ ca[2] = cb[2] /\ ca[3] < cb[3]

\* C15: the timeline has exactly one entry per distinct date of the rows it
\* aggregates, the entries are strictly ascending by the year, month and day
\* of their dates, and every entry has a finite number for every company of
\* the result.
C15_TimelineStrictlyAscending ==
    chart.series # "" =>
        LET chartData == chart.chartData
            dates == {Get(rows[i].f, "Date") : i \in ErrorFree(rows)}
        IN  /\ {chartData[i].Date : i \in 1..Len(chartData)} = dates
            /\ Len(chartData) = Cardinality(dates)
            /\ \A i \in 1..(Len(chartData) - 1) :
                   ComponentsLess(chartData[i].Date, chartData[i + 1].Date)
            /\ \A i \in 1..Len(chartData) :
                   /\ DOMAIN chartData[i].values = Range(chart.companies)
                   /\ \A c \in Range(chart.companies) : chartData[i].values[c].k = "fin"


----------------------------------------------------------------------------
(* The chart of all data series of a single company. *)

numericColumns == NUMERIC_COLUMNS

\* the truthiness of a cell value
Truthy(val) ==
    CASE val.t = "str" -> val.s # <<>>
      [] val.t = "num" -> NumTruthy(val.num)
      [] OTHER -> FALSE

\* filteredRows.find(r => r['Date'] === date && r['Company'] === company)?.[col] || 0
FindValue(rs, date, company, col) ==
    LET hits == {i \in 1..Len(rs) :
                    Get(rs[i].f, "Date") = date /\ Get(rs[i].f, "Company") = company}
    IN  IF hits = {} THEN Num(Fin(0))
        ELSE LET first == CHOOSE i \in hits : \A j \in hits : i <= j
                 val == Get(rs[first].f, col)
             IN  IF Truthy(val) THEN val ELSE Num(Fin(0))

S_AllDataSeries == "All Data Series"

\* chartDataToUse when showAllSeries is checked and one company is in scope
allSeriesChartData(rs, series) ==
    LET agg == aggregateChartDataSeries(rs, series) IN
    [series |-> S_AllDataSeries,
     chartData |->
        [i \in 1..Len(agg.chartData) |->
            [Date |-> agg.chartData[i].Date,
             values |->
                [col \in Range(numericColumns) |->
                    FindValue(rs, agg.chartData[i].Date, agg.companies[1], col)]]],
     companies |-> agg.companies]

\* the chart section rendered with Show All Data Series checked; the box can
\* be checked only while one company is in scope
RenderAllSeries(series) ==
    /\ phase = "loaded"
    /\ Len(filteredRows) > 0
    /\ Len(ChartCompanies(filteredRows)) = 1
    /\ chart' = allSeriesChartData(filteredRows, series)
    /\ UNCHANGED <<fileName, pending, trend,
                   file, phase, rows, errors, dateRange, entityFilterType,
                   selectedCompanies, now, tables>>

NextAllSeries ==
    \/ ParseComplete
    \/ \E series \in {"Total Activities", "Frank AI Searches"} : RenderChart(series)
    \/ \E series \in {"Total Activities", "Frank AI Searches"} : RenderAllSeries(series)

SpecAllSeries == InitTimeline /\ [][NextAllSeries]_vars

\* C16: in the chart of all series of the single company in scope, the value
\* of each date and activity column is the sum of that column over the
\* error-free filtered rows of the company on that date: the value the
\* per-company aggregation gives with that column as the measure.
C16_AllSeriesEqualsPerCompanySum ==
    chart.series = S_AllDataSeries =>
        \A i \in 1..Len(chart.chartData) :
            \A col \in Range(numericColumns) :
                chart.chartData[i].values[col] =
                    Num(aggregateChartDataSeries(filteredRows, col)
                            .chartData[i].values[chart.companies[1]])


----------------------------------------------------------------------------
(* The threshold trend classifier: calcAvgAndTrend. *)

\* new Date(r['Date']) of a row's Date.  The engines read a string of the
\* shape dd/dd/dddd as month/day/year: a month of 1..12 and a day of 1..31
\* give the date (a day past the month's end runs into the next month),
\* anything else Invalid Date.  The years of the model have four digits and
\* its rows no Date of another shape.
DateFromString(val) ==
    IF val.t = "str" /\ MatchesDDMMYYYY(val.s)
    THEN LET month == DigitsVal(val.s, 1, 2, 10)
             day == DigitsVal(val.s, 4, 5, 10)
             year == DigitsVal(val.s, 7, 10, 10)
         IN  IF month \in 1..12 /\ day \in 1..31
             THEN NewDate(year, month - 1, day)
             ELSE InvalidDate
    ELSE InvalidDate

\* new Set(periodRows.map(r => r['Date'])).size || 1
DaysWithData(periodRows) ==
    LET size == Cardinality({Get(periodRows[i].f, "Date") : i \in 1..Len(periodRows)}) IN
    IF size = 0 THEN 1 ELSE size

\* an average sum / days is kept as its numerator and denominator
AvgIsZero(avg) == avg.num = Fin(0)

AvgIsPositive(avg) == avg.num.k = "inf" \/ (avg.num.k = "fin" /\ avg.num.v > 0)

\* the trend: "up", "down" and "flat" stand for the three arrows.  pct is
\* (currAvg - prevAvg) / prevAvg, compared with 0.1 and -0.1 exactly (the
\* sums of the model are whole numbers below 40 over at most 3 days, for
\* which the doubles decide the same way)
Classify(currAvg, prevAvg) ==
    IF AvgIsZero(prevAvg) /\ AvgIsPositive(currAvg) THEN "up"
    ELSE IF AvgIsPositive(prevAvg)
         THEN CASE prevAvg.num.k = "inf" -> "flat"
                [] currAvg.num.k = "inf" -> "up"
                [] currAvg.num.k = "ninf" -> "down"
                [] currAvg.num.k = "nan" -> "flat"
                [] OTHER ->
                    LET diff == currAvg.num.v * prevAvg.den - prevAvg.num.v * currAvg.den
                        base == prevAvg.num.v * currAvg.den
                    IN  IF 10 * diff > base THEN "up"
                        ELSE IF 10 * diff < 0 - base THEN "down"
                        ELSE "flat"
         ELSE "flat"

calcAvgAndTrend(activity, periodDays, endDate, allRows, company) ==
    LET end == endDate
        start == DateAt(end.v - (periodDays - 1) * msPerDay)
        prevEnd == DateAt(start.v - msPerDay)
        prevStart == DateAt(prevEnd.v - (periodDays - 1) * msPerDay)
        InCurr(r) ==
            /\ Get(r.f, "Company") = company
            /\ DateGE(DateFromString(Get(r.f, "Date")), start)
            /\ DateLE(DateFromString(Get(r.f, "Date")), end)
        InPrev(r) ==
            /\ Get(r.f, "Company") = company
            /\ DateGE(DateFromString(Get(r.f, "Date")), prevStart)
            /\ DateLE(DateFromString(Get(r.f, "Date")), prevEnd)
        currRows == SelectSeq(allRows, InCurr)
        prevRows == SelectSeq(allRows, InPrev)
        currAvg == [num |-> SumActivity(currRows, activity), den |-> DaysWithData(currRows)]
        prevAvg == [num |-> SumActivity(prevRows, activity), den |-> DaysWithData(prevRows)]
    IN  [currAvg |-> currAvg, prevAvg |-> prevAvg, trend |-> Classify(currAvg, prevAvg)]

\* one call of calcAvgAndTrend on the stored rows
CalcAvgAndTrend(activity, periodDays, endDate, company) ==
    /\ phase = "loaded"
    /\ trend' = [called |-> TRUE, activity |-> activity, periodDays |-> periodDays,
                 endDate |-> endDate, company |-> company,
                 result |-> calcAvgAndTrend(activity, periodDays, endDate, rows, company)]
    /\ UNCHANGED <<fileName, pending,
                   file, phase, rows, errors, dateRange, entityFilterType,
                   selectedCompanies, now, chart, tables>>

\* reads 5 June 2024 as month/day/year
D_06_05_2024 == <<"0", "6", "/", "0", "5", "/", "2", "0", "2", "4">>

\* reads 30 May 2024 as month/day/year
D_05_30_2024 == <<"0", "5", "/", "3", "0", "/", "2", "0", "2", "4">>

ClassifierPool ==
    {MkRow(Str(d), Str(S_Acme), Str(S_Brand), Str(v), S_Empty, S_Empty) :
        d \in {D_06_05_2024, D_05_30_2024, D_30_06_2024},
        v \in {<<"9">>, <<"1", "0">>, <<"1", "1">>, <<"1", "2">>, <<"-", "3">>}}
    \cup {MkRow(Str(D_06_05_2024), Str(S_Globex), Str(S_Brand), Str(<<"1", "0">>),
                S_Empty, S_Empty)}

\* the end dates of the calls: 7 June 2024 and 30 June 2024, at midnight
ClassifierEndDates == {NewDate(2024, 5, 7), NewDate(2024, 5, 30)}

InitClassifier ==
    /\ file \in {[fields |-> REQUIRED_COLUMNS, data |-> d] :
                    d \in SeqsUpTo(ClassifierPool, MaxRows)}
    /\ phase = "parsing"
    /\ rows = <<>>
    /\ errors = <<>>
    /\ dateRange = <<Null, Null>>
    /\ entityFilterType = "all"
    /\ selectedCompanies = {}
    /\ now = 0
    /\ chart = NoChart
    /\ tables = NoTables
    /\ trend = NoTrend
    /\ fileName = UploadName
    /\ pending = <<>>

NextClassifier ==
    \/ ParseComplete
    \/ \E periodDays \in {7, 14}, endDate \in ClassifierEndDates,
          company \in {Str(S_Acme), Str(S_Globex)} :
           CalcAvgAndTrend("Total Activities", periodDays, endDate, company)

SpecClassifier == InitClassifier /\ [][NextClassifier]_vars


\* the percent change (curr - prev) / prev against +10% and -10%, on the
\* exact quotients; undefined, so neither above nor below, when prev is zero
PctNumerator(curr, prev) == curr.num.v * prev.den - prev.num.v * curr.den

PctBase(curr, prev) == prev.num.v * curr.den

PctAbove10(curr, prev) ==
    /\ PctBase(curr, prev) # 0
    /\ 10 * PctNumerator(curr, prev) * PctBase(curr, prev)
           > PctBase(curr, prev) * PctBase(curr, prev)

PctBelowMinus10(curr, prev) ==
    /\ PctBase(curr, prev) # 0
    /\ 10 * PctNumerator(curr, prev) * PctBase(curr, prev)
           < 0 - PctBase(curr, prev) * PctBase(curr, prev)

ThresholdClass(curr, prev) ==
    IF (prev.num.v = 0 /\ curr.num.v > 0) \/ PctAbove10(curr, prev) THEN "up"
    ELSE IF PctBelowMinus10(curr, prev) THEN "down"
    ELSE "flat"

\* C17: the threshold classifier returns Up if the prior average is zero and
\* the current one positive or if the percent change (current - prior) /
\* prior is above +10%, Down if the percent change is below -10%, and Flat
\* in every other case.
C17_ThresholdClassifier ==
    (/\ trend.called
     /\ trend.result.currAvg.num.k = "fin"
     /\ trend.result.prevAvg.num.k = "fin")
        => trend.result.trend = ThresholdClass(trend.result.currAvg, trend.result.prevAvg)

\* the rows of the company whose calendar date, read as DD/MM/YYYY, is one of
\* the days first..last
RowsOfDays(company, first, last) ==
    {i \in 1..Len(rows) :
        /\ Get(rows[i].f, "Company") = company
        /\ parseDateString(Get(rows[i].f, "Date")).k = "date"
        /\ CalendarDay(rows[i]) >= first
        /\ CalendarDay(rows[i]) <= last}

\* sum / number of distinct dates with data, or sum / 1 when there are none
AverageOfRows(S, activity) ==
    LET days == Cardinality({Get(rows[i].f, "Date") : i \in S}) IN
    [num |-> SumOver(S, MeasureAt(activity)), den |-> IF days = 0 THEN 1 ELSE days]

\* every row has a DD/MM/YYYY Date that names a day of the calendar
AllDatesCanonical ==
    \A i \in 1..Len(rows) :
        /\ Get(rows[i].f, "Date").t = "str"
        /\ MatchesDDMMYYYY(Get(rows[i].f, "Date").s)
        /\ parseDDMMYYYY(Get(rows[i].f, "Date").s) # InvalidDate

\* C18: for period length N and end date E the current period is the N
\* calendar days [E - (N - 1), E] and the prior period the N calendar days
\* [E - (2N - 1), E - N]; a row of the company with a canonical DD/MM/YYYY
\* Date counts in the period that holds its calendar date, and each period's
\* average is its sum over its number of distinct dates with data, or over 1.
C18_PeriodsByCalendarDate ==
    (trend.called /\ AllDatesCanonical) =>
        LET E == DayOf(trend.endDate)
            N == trend.periodDays
        IN  /\ trend.result.currAvg =
                   AverageOfRows(RowsOfDays(trend.company, E - (N - 1), E), trend.activity)
            /\ trend.result.prevAvg =
                   AverageOfRows(RowsOfDays(trend.company, E - (2 * N - 1), E - N),
                                 trend.activity)


----------------------------------------------------------------------------
(* Normalization applied to its own output. *)

\* the validation run once more, on the rows it returned
Renormalize ==
    /\ phase = "loaded"
    /\ LET parsed == parseAndValidateCSV([fields |-> file.fields,
                                          data |-> [i \in 1..Len(rows) |-> rows[i].f]])
       IN  /\ rows' = WithId(parsed.rows)
           /\ errors' = parsed.errors
    /\ phase' = "renormalized"
    /\ UNCHANGED <<fileName, pending,
                   file, dateRange, entityFilterType, selectedCompanies, now, chart,
                   tables, trend>>

NextRenormalize == ParseComplete \/ ParseError \/ Renormalize

SpecRenormalize == InitValidate /\ [][NextRenormalize]_vars

\* the DD/MM/YYYY writing of a YYYY-MM-DD date
IsoAsDDMMYYYY(s) ==
    <<s[9], s[10], "/", s[6], s[7], "/", s[1], s[2], s[3], s[4]>>

\* C19: normalization is idempotent on its error-free output.  A row with a
\* YYYY-MM-DD Date gets the Date in DD/MM/YYYY and the warning "Date
\* auto-converted to DD/MM/YYYY"; normalizing the error-free output of a
\* normalization changes no field and gives no warnings and no errors.
C19_NormalizationIdempotent ==
    phase \in {"loaded", "renormalized"} =>
        LET first == WithId(parseAndValidateCSV(file).rows) IN
        \A i \in 1..Len(first) :
            first[i].rowErrors = <<>> =>
                /\ LET raw == Cleaned(file.data[i], "Date") IN
                   MatchesYYYYMMDD(raw.s) =>
                       /\ first[i].f["Date"] = Str(IsoAsDDMMYYYY(raw.s))
                       /\ Warning("Date", "auto-converted to DD/MM/YYYY")
                              \in Range(first[i].rowWarnings)
                /\ phase = "renormalized" =>
                       /\ rows[i].f = first[i].f
                       /\ rows[i].rowWarnings = <<>>
                       /\ rows[i].rowErrors = <<>>

\* C19 witness: the upload has the Date 2024-06-30 and a Total Activities of
\* " 7"; after the second normalization the row has the Date 30/06/2024, the
\* number 7, no warnings and no errors.
C19_Witness ==
    /\ phase = "renormalized"
    /\ Get(file.data[1], "Date") = Str(ISO_2024_06_30)
    /\ Get(file.data[1], "Total Activities") = Str(<<" ", "7">>)
    /\ rows[1].f["Date"] = Str(D_30_06_2024)
    /\ rows[1].f["Total Activities"] = Num(Fin(7))
    /\ rows[1].rowWarnings = <<>>
    /\ rows[1].rowErrors = <<>>


----------------------------------------------------------------------------
(* Uploads whose header lacks required columns. *)

\* the columns a header of the uploads below may lack
DroppableColumns == {"Date", "Company", "Role", "Total Activities", "Prebookings"}

\* the header without the columns of missing, in the order of the schema
HeaderWithout(missing) ==
    LET Present(col) == col \notin missing IN SelectSeq(REQUIRED_COLUMNS, Present)

\* a data row of a file with that header: it has no key of a missing column
RowWithout(row, missing) == [c \in DOMAIN row \ missing |-> row[c]]

MissingPool ==
    {MkRow(d, Str(S_Acme), r, t, S_Empty, Str(<<"2">>)) :
        d \in {Str(D_30_06_2024), Str(BAD_30_06_2024)},
        r \in {Str(S_Brand), Str(<<"b", "r", "a", "n", "d">>)},
        t \in {Str(<<"7">>), Str(<<"-", "3">>)}}

InitMissing ==
    /\ file \in {[fields |-> HeaderWithout(missing),
                  data |-> [i \in 1..Len(rs) |-> RowWithout(rs[i], missing)]] :
                    missing \in {m \in SUBSET DroppableColumns : Cardinality(m) <= 2},
                    rs \in SeqsUpTo(MissingPool, MaxRows)}
    /\ phase = "parsing"
    /\ rows = <<>>
    /\ errors = <<>>
    /\ dateRange = <<Null, Null>>
    /\ entityFilterType = "all"
    /\ selectedCompanies = {}
    /\ now = 0
    /\ chart = NoChart
    /\ tables = NoTables
    /\ trend = NoTrend
    /\ fileName = UploadName
    /\ pending = <<>>

NextMissing == ParseComplete \/ ParseError

SpecMissing == InitMissing /\ [][NextMissing]_vars

\* the required columns absent from the header of the upload
MissingFromHeader == {c \in Range(REQUIRED_COLUMNS) : c \notin Range(file.fields)}

\* C20: a missing required column never aborts validation.  After the parse
\* completes, each required column absent from the header has exactly one
\* diagnostic "Missing required column: <name>" and a present one has none;
\* every data row is validated and returned; with Role missing every row has
\* an "Invalid role" error; a missing numeric column is 0 on every row, with
\* no row error for that column.
C20_MissingColumnNeverAborts ==
    phase = "loaded" =>
        /\ \A c \in Range(REQUIRED_COLUMNS) :
               Cardinality({i \in DOMAIN errors : errors[i] = MissingColumn(c)})
                   = IF c \in MissingFromHeader THEN 1 ELSE 0
        /\ Len(rows) = Len(file.data)
        /\ \A i \in 1..Len(rows) :
               /\ rows[i].id = i - 1
               /\ \A c \in DOMAIN file.data[i] : c \in DOMAIN rows[i].f
               /\ "Role" \in MissingFromHeader =>
                      \E e \in Range(rows[i].rowErrors) :
                          e.col = "Role" /\ e.kind = "Invalid role" /\ e.row = i + 1
               /\ \A c \in Range(NUMERIC_COLUMNS) \cap MissingFromHeader :
                      /\ rows[i].f[c] = Num(Fin(0))
                      /\ \A e \in Range(rows[i].rowErrors) : e.col # c

\* C20 witness: a two-row upload without the Role and Total Activities
\* columns is loaded with both rows, both schema diagnostics, an "Invalid
\* role" error on the second row and Total Activities 0 on the first.
C20_Witness ==
    /\ phase = "loaded"
    /\ MissingFromHeader = {"Role", "Total Activities"}
    /\ Len(file.data) = 2
    /\ Len(rows) = 2
    /\ MissingColumn("Role") \in Range(errors)
    /\ MissingColumn("Total Activities") \in Range(errors)
    /\ \E e \in Range(rows[2].rowErrors) : e.col = "Role" /\ e.kind = "Invalid role"
    /\ rows[1].f["Total Activities"] = Num(Fin(0))


----------------------------------------------------------------------------
(* The diagnostics list of an upload. *)

\* <<Date, Role, Total Activities, Prebookings>>
DiagnosticsPool ==
    {MkRow(Str(r[1]), Str(S_Acme), Str(r[2]), Str(r[3]), S_Empty, Str(r[4])) :
        r \in {<<D_30_06_2024, S_Brand, <<"7">>, <<"2">> >>,
               <<ISO_2024_06_30, S_Brand, <<" ", "7">>, <<"2">> >>,
               <<BAD_30_06_2024, <<"b", "r", "a", "n", "d">>, <<"-", "3">>, <<"-", "1">> >>,
               <<ISO_2024_06_30, S_Supplier, <<"a", "b", "c">>, <<"2">> >>,
               <<D_30_06_2024, S_Brand \o <<" ">>, <<"7">>, <<"-", "1">> >>}}

InitDiagnostics ==
    /\ file \in {[fields |-> HeaderWithout(missing),
                  data |-> [i \in 1..Len(rs) |-> RowWithout(rs[i], missing)]] :
                    missing \in {{}, {"Role"}, {"Date", "Prebookings"}},
                    rs \in SeqsUpTo(DiagnosticsPool, MaxRows)}
    /\ phase = "parsing"
    /\ rows = <<>>
    /\ errors = <<>>
    /\ dateRange = <<Null, Null>>
    /\ entityFilterType = "all"
    /\ selectedCompanies = {}
    /\ now = 0
    /\ chart = NoChart
    /\ tables = NoTables
    /\ trend = NoTrend
    /\ fileName = UploadName
    /\ pending = <<>>

NextDiagnostics == ParseComplete \/ ParseError

SpecDiagnostics == InitDiagnostics /\ [][NextDiagnostics]_vars

\* the place of a column in the order the row checks run: Date, Role, then
\* the numeric columns in schema order
RECURSIVE IndexIn(_, _)
IndexIn(seq, x) == IF seq = <<>> \/ Head(seq) = x THEN 1 ELSE 1 + IndexIn(Tail(seq), x)

CheckRank(col) ==
    IF col = "Date" THEN 1
    ELSE IF col = "Role" THEN 2
    ELSE 2 + IndexIn(REQUIRED_COLUMNS, col)

RECURSIVE SumLens(_, _)
SumLens(rs, i) == IF i > Len(rs) THEN 0 ELSE Len(rs[i].rowErrors) + SumLens(rs, i + 1)

\* C21: the diagnostics list is ordered.  The schema diagnostics come first;
\* then the diagnostics follow the rows in file order; within a row its
\* errors come in the order Date, Role, measures in schema order, and are the
\* row's rowErrors; they are followed by exactly one combined warning
\* diagnostic, holding the row's warnings, iff the row has a warning; the
\* length is missing columns + row errors + rows with warnings.
C21_DiagnosticsOrdered ==
    phase = "loaded" =>
        LET nMissing == Cardinality(MissingFromHeader)
        IN
        /\ Len(errors) = nMissing + SumLens(rows, 1)
               + Cardinality({i \in 1..Len(rows) : rows[i].rowWarnings # <<>>})
        /\ \A k \in 1..Len(errors) : (errors[k].type = "missing") <=> (k <= nMissing)
        /\ \A k \in 1..Len(errors) : errors[k].type \in {"missing", "error", "warning"}
        /\ \A k, l \in (nMissing + 1)..Len(errors) :
               k < l =>
                   /\ errors[k].row <= errors[l].row
                   /\ errors[k].row = errors[l].row =>
                          /\ errors[k].type = "error"
                          /\ errors[l].type = "error" =>
                                 CheckRank(errors[k].col) < CheckRank(errors[l].col)
        /\ \A i \in 1..Len(rows) :
               LET IsOfRow(e) == e.row = i + 1 /\ e.type \in {"error", "warning"}
                   IsErrorOfRow(e) == e.row = i + 1 /\ e.type = "error"
                   mine == SelectSeq(errors, IsOfRow)
               IN
               /\ SelectSeq(errors, IsErrorOfRow) = rows[i].rowErrors
               /\ IF rows[i].rowWarnings = <<>>
                  THEN mine = rows[i].rowErrors
                  ELSE mine = rows[i].rowErrors
                                  \o <<RowWarnings(i + 1, rows[i].rowWarnings)>>

\* C21 witness: a header without Role; the first row has a Date error, a Role
\* error and two measure errors; the second row has a Role error and then a
\* combined warning.
C21_Witness ==
    /\ phase = "loaded"
    /\ MissingFromHeader = {"Role"}
    /\ Len(rows) = 2
    /\ Len(rows[1].rowErrors) = 4
    /\ Len(rows[2].rowErrors) = 1
    /\ rows[2].rowWarnings # <<>>
    /\ Len(errors) = 7
    /\ errors[1] = MissingColumn("Role")
    /\ errors[7] = RowWarnings(3, rows[2].rowWarnings)



----------------------------------------------------------------------------
(* Uploads one after another and overlapping: handleFileChange, the effect *)
(* on [fileName] and the callbacks of the parses in flight.                *)

NoFile == [fields |-> <<>>, data |-> <<>>]

UploadNames == {"a.csv", "b.csv", "c.csv"}

\* Papa's result for the file of that name
UploadFile(name) ==
    [fields |-> REQUIRED_COLUMNS,
     data |->
        CASE name = "a.csv" ->
                 <<MkRow(Str(D_24_06_2024), Str(S_Acme), Str(S_Brand), Str(<<"7">>),
                         S_Empty, S_Empty),
                   MkRow(Str(D_30_06_2024), Str(S_Acme), Str(S_Brand), Str(<<"1">>),
                         S_Empty, S_Empty)>>
          [] name = "b.csv" ->
                 <<MkRow(Str(D_01_07_2024), Str(S_Globex), Str(S_Brand), Str(<<"2">>),
                         S_Empty, S_Empty)>>
          [] OTHER ->
                 <<MkRow(Str(BAD_30_06_2024), Str(S_beta), Str(S_Supplier),
                         Str(<<" ", "7">>), S_Empty, S_Empty)>>]

\* the sequence without its k-th element
RemoveAt(seq, k) == SubSeq(seq, 1, k - 1) \o SubSeq(seq, k + 1, Len(seq))

\* the state the effect on [fileName] leaves in dateRange; it runs after the
\* render that follows setFileName, when fileName has changed, with the rows
\* of that render
DefaultRangeEffect(changed) ==
    IF changed /\ minDate # Null /\ maxDate # Null
       /\ (\/ dateRange[1] = Null
           \/ dateRange[2] = Null
           \/ dateRange[1].v # minDate.v
           \/ dateRange[2].v # maxDate.v)
    THEN <<minDate, maxDate>>
    ELSE dateRange

\* handleFileChange for a chosen file: setFileName and the start of the
\* parse; then the render and its effect
SelectFile(name) ==
    /\ Len(pending) < 2
    /\ fileName' = name
    /\ pending' = Append(pending, name)
    /\ dateRange' = DefaultRangeEffect(name # fileName)
    /\ UNCHANGED <<file, phase, rows, errors, entityFilterType, selectedCompanies,
                   now, chart, tables, trend>>

\* an error callback that hands over the rows validated so far
UploadError_PartialRows(k) ==
    /\ k \in 1..Len(pending)
    /\ rows' = WithId(parseAndValidateCSV(UploadFile(pending[k])).rows)
    /\ errors' = <<ParseFailure>>
    /\ phase' = "failed"
    /\ pending' = RemoveAt(pending, k)
    /\ UNCHANGED <<fileName, file, dateRange, entityFilterType, selectedCompanies,
                   now, chart, tables, trend>>

\* Papa's complete callback of the k-th parse in flight, then the callback of
\* handleFileChange
UploadComplete(k) ==
    /\ k \in 1..Len(pending)
    /\ LET parsed == parseAndValidateCSV(UploadFile(pending[k])) IN
         /\ rows' = WithId(parsed.rows)
         /\ errors' = parsed.errors
    /\ file' = UploadFile(pending[k])
    /\ phase' = "loaded"
    /\ pending' = RemoveAt(pending, k)
    /\ UNCHANGED <<fileName, dateRange, entityFilterType, selectedCompanies, now,
                   chart, tables, trend>>

\* Papa's error callback of the k-th parse in flight, then the callback of
\* handleFileChange
UploadError(k) ==
    /\ k \in 1..Len(pending)
    /\ rows' = <<>>
    /\ errors' = <<ParseFailure>>
    /\ phase' = "failed"
    /\ pending' = RemoveAt(pending, k)
    /\ UNCHANGED <<fileName, file, dateRange, entityFilterType, selectedCompanies,
                   now, chart, tables, trend>>

InitUploads ==
    /\ fileName = ""
    /\ pending = <<>>
    /\ file = NoFile
    /\ phase = "idle"
    /\ rows = <<>>
    /\ errors = <<>>
    /\ dateRange = <<Null, Null>>
    /\ entityFilterType = "all"
    /\ selectedCompanies = {}
    /\ now = 0
    /\ chart = NoChart
    /\ tables = NoTables
    /\ trend = NoTrend

NextUploads ==
    \/ \E name \in UploadNames : SelectFile(name)
    \/ \E k \in 1..2 : UploadComplete(k)
    \/ \E k \in 1..2 : UploadError(k)

SpecUploads == InitUploads /\ [][NextUploads]_vars


----------------------------------------------------------------------------
(* Claims about the completion callback and the uploads. *)

\* the callback of a success was given all rows of the file, validated, with
\* the diagnostics of the file
CalledWithResults ==
    /\ rows = WithId(parseAndValidateCSV(file).rows)
    /\ Len(rows) = Len(file.data)
    /\ errors = parseAndValidateCSV(file).errors

\* the callback of a parser-level failure was given no rows and the failure
\* message as the only diagnostic
CalledWithFailure ==
    /\ rows = <<>>
    /\ errors = <<ParseFailure>>

C26_DateRangeDefaultsToSpan ==
    (phase = "loaded" /\ getAllDates(rows) # {}) =>
        dateRange = <<minDate, maxDate>>

\* C27: when two uploads overlap, once both callbacks have fired the rows and
\* the diagnostics held are those of the file selected last, whose name is
\* displayed.
C27_OverlapHoldsLastSelected ==
    (pending = <<>> /\ phase = "loaded") =>
        /\ rows = WithId(parseAndValidateCSV(UploadFile(fileName)).rows)
        /\ errors = parseAndValidateCSV(UploadFile(fileName)).errors


----------------------------------------------------------------------------
(* The list of alerts: one Alert per diagnostic, its severity from the text. *)

S_warning == <<"w", "a", "r", "n", "i", "n", "g">>

\* s.includes(w) for a string of the model
IncludesSeq(s, w) ==
    \E i \in 1..(Len(s) - Len(w) + 1) : SubSeq(s, i, i + Len(w) - 1) = w

\* err.includes('warning') for the text of a diagnostic.  The text of a
\* combined warning has the marker "(warning)"; the text of a row error is
\* "Row N, Column '<col>': <kind> (value: '<value>')" with a column name and a
\* kind that do not have the word, so the quoted value decides; the text of a
\* schema diagnostic names a required column; the failure message of the
\* parser is taken not to have the word.
IncludesWarning(diag) ==
    CASE diag.type = "warning" -> TRUE
      [] diag.type = "error" ->
             diag.value.t = "str" /\ IncludesSeq(diag.value.s, S_warning)
      [] OTHER -> FALSE

\* the severity of the Alert of one diagnostic
AlertSeverity(diag) == IF IncludesWarning(diag) THEN "warning" ELSE "error"

\* errors.map((err, idx) => <Alert severity=...>)
alerts == [i \in 1..Len(errors) |-> AlertSeverity(errors[i])]

\* <<Date, Role, Total Activities>>
SeverityPool ==
    {MkRow(Str(r[1]), Str(S_Acme), Str(r[2]), Str(r[3]), S_Empty, S_Empty) :
        r \in {<<D_30_06_2024, S_Brand, <<"7">> >>,
               <<ISO_2024_06_30, S_Brand, <<" ", "7">> >>,
               <<BAD_30_06_2024, S_Supplier, <<"-", "3">> >>,
               <<D_30_06_2024, S_warning, <<"7">> >>,
               <<D_30_06_2024, S_Brand, <<"n", "o", " ">> \o S_warning >>,
               <<D_30_06_2024, <<"W", "a", "r", "n", "i", "n", "g">>, <<"7">> >>}}

InitSeverity ==
    /\ file \in {[fields |-> HeaderWithout(missing),
                  data |-> [i \in 1..Len(rs) |-> RowWithout(rs[i], missing)]] :
                    missing \in {{}, {"Role"}},
                    rs \in SeqsUpTo(SeverityPool, MaxRows)}
    /\ phase = "parsing"
    /\ rows = <<>>
    /\ errors = <<>>
    /\ dateRange = <<Null, Null>>
    /\ entityFilterType = "all"
    /\ selectedCompanies = {}
    /\ now = 0
    /\ chart = NoChart
    /\ tables = NoTables
    /\ trend = NoTrend
    /\ fileName = UploadName
    /\ pending = <<>>

NextSeverity == ParseComplete \/ ParseError

SpecSeverity == InitSeverity /\ [][NextSeverity]_vars

\* C23: severity is recoverable from the textual marker alone: the Alert of a
\* diagnostic has the severity warning iff the diagnostic is a per-row
\* combined warning; no schema diagnostic, row error or parse failure is shown
\* as a warning.
C23_SeverityFromMarker ==
    \A i \in 1..Len(errors) : (alerts[i] = "warning") <=> (errors[i].type = "warning")


----------------------------------------------------------------------------
(* Files with empty lines: Papa.parse with skipEmptyLines. *)

\* a line of the file after the header that has no text
EmptyLine == [c \in {} |-> S_Empty]

IsEmptyLine(line) == DOMAIN line = {}

\* results.data for the lines after the header: skipEmptyLines drops the
\* empty ones
PapaData(lines) ==
    LET HasText(line) == ~IsEmptyLine(line) IN SelectSeq(lines, HasText)

\* the 1-based number, the header being line 1, of the line of the file that
\* holds the i-th record of results.data
LineOf(lines, i) ==
    1 + CHOOSE p \in 1..Len(lines) :
            /\ ~IsEmptyLine(lines[p])
            /\ Cardinality({q \in 1..p : ~IsEmptyLine(lines[q])}) = i

\* <<Date, Role, Total Activities>>
LinesPool ==
    {MkRow(Str(r[1]), Str(S_Acme), Str(r[2]), Str(r[3]), S_Empty, S_Empty) :
        r \in {<<D_30_06_2024, S_Brand, <<"7">> >>,
               <<ISO_2024_06_30, S_Brand, <<" ", "7">> >>,
               <<BAD_30_06_2024, <<"b", "r", "a", "n", "d">>, <<"-", "3">> >>}}

InitLines ==
    /\ file \in {[fields |-> REQUIRED_COLUMNS, data |-> PapaData(lines), lines |-> lines] :
                    lines \in SeqsUpTo(LinesPool \cup {EmptyLine}, MaxRows + 1)}
    /\ phase = "parsing"
    /\ rows = <<>>
    /\ errors = <<>>
    /\ dateRange = <<Null, Null>>
    /\ entityFilterType = "all"
    /\ selectedCompanies = {}
    /\ now = 0
    /\ chart = NoChart
    /\ tables = NoTables
    /\ trend = NoTrend
    /\ fileName = UploadName
    /\ pending = <<>>

NextLines == ParseComplete \/ ParseError

SpecLines == InitLines /\ [][NextLines]_vars

\* C24: the row number N in every error and warning message of a row is the
\* 1-based line number of that row in the uploaded file, the header being
\* line 1, also for files with empty lines that the parser skips.
C24_RowNumberIsFileLine ==
    phase = "loaded" =>
        \A i \in 1..Len(rows) :
            /\ \A e \in Range(rows[i].rowErrors) : e.row = LineOf(file.lines, i)
            /\ rows[i].rowWarnings # <<>> =>
                   RowWarnings(LineOf(file.lines, i), rows[i].rowWarnings)
                       \in Range(errors)


----------------------------------------------------------------------------
(* Files with a column outside the required schema. *)

\* the record with one more cell, of the column col
WithCell(row, col, val) ==
    [c \in DOMAIN row \cup {col} |-> IF c = col THEN val ELSE row[c]]

ExtraValues ==
    {S_Empty, Str(<<"o", "k">>), Str(<<" ", "o", "k">>), Str(<<"o", "k", "ZWSP">>)}

ExtraPool ==
    {WithCell(r, "Notes", v) : r \in LinesPool, v \in ExtraValues}

InitExtra ==
    /\ file \in {[fields |-> REQUIRED_COLUMNS \o <<"Notes">>, data |-> rs] :
                    rs \in SeqsUpTo(ExtraPool, MaxRows)}
    /\ phase = "parsing"
    /\ rows = <<>>
    /\ errors = <<>>
    /\ dateRange = <<Null, Null>>
    /\ entityFilterType = "all"
    /\ selectedCompanies = {}
    /\ now = 0
    /\ chart = NoChart
    /\ tables = NoTables
    /\ trend = NoTrend
    /\ fileName = UploadName
    /\ pending = <<>>

NextExtra == ParseComplete \/ ParseError

SpecExtra == InitExtra /\ [][NextExtra]_vars

\* the file with the columns outside the required schema removed
WithoutExtraColumns(f) ==
    LET IsRequired(col) == col \in Range(REQUIRED_COLUMNS) IN
    [fields |-> SelectSeq(f.fields, IsRequired),
     data |-> [i \in 1..Len(f.data) |->
                  [c \in DOMAIN f.data[i] \cap Range(REQUIRED_COLUMNS) |-> f.data[i][c]]]]

\* C25: columns outside the required schema are ignored by validation: the
\* rowErrors and rowWarnings of every row and the diagnostics are those of the
\* file with its extra columns removed.
C25_ExtraColumnsIgnored ==
    phase = "loaded" =>
        LET plain == parseAndValidateCSV(WithoutExtraColumns(file)) IN
        /\ errors = plain.errors
        /\ \A i \in 1..Len(rows) :
               /\ rows[i].rowErrors = plain.rows[i].rowErrors
               /\ rows[i].rowWarnings = plain.rows[i].rowWarnings


----------------------------------------------------------------------------
(* The data-table preview: the class of the cells of a displayed row. *)

\* getCellClassName for the cells of a displayed row: the row is looked up
\* in filteredRows at the index params.row.id
getCellClassName(displayed) ==
    IF displayed.id + 1 \in 1..Len(filteredRows)
       /\ filteredRows[displayed.id + 1].rowErrors # <<>>
    THEN "error-row"
    ELSE ""

\* C28: in the data-table preview, for every filter state, a displayed row
\* has the error-row highlight iff that row has non-empty rowErrors.
C28_HighlightIffRowErrors ==
    \A k \in 1..Len(filteredRows) :
        (getCellClassName(filteredRows[k]) = "error-row")
            <=> (filteredRows[k].rowErrors # <<>>)


----------------------------------------------------------------------------
(* The trend windows are nested. *)

\* a <= b for two numbers
NumLeq(a, b) ==
    CASE a.k = "nan" \/ b.k = "nan" -> FALSE
      [] a.k = "ninf" \/ b.k = "inf" -> TRUE
      [] a.k = "inf" \/ b.k = "ninf" -> FALSE
      [] OTHER -> a.v <= b.v

\* the Actual cells of one table row do not decrease from a period to the
\* next longer one, and none is negative
ActualsNested(cells) ==
    /\ \A p \in 1..(Len(periods) - 1) : NumLeq(cells[p].actual, cells[p + 1].actual)
    /\ \A p \in 1..Len(periods) : NumLeq(Fin(0), cells[p].actual)

----------------------------------------------------------------------------
(* The entity selection: radio group, company Select and Clear Selection. *)

\* the Clear Selection button's onClick
ClearSelection ==
    /\ phase = "loaded"
    /\ entityFilterType' = "all"
    /\ selectedCompanies' = {}
    /\ dateRange' = <<Null, Null>>
    /\ tables' = NoTables
    /\ UNCHANGED <<fileName, pending, trend, file, phase, rows, errors, now, chart>>

NextSelection ==
    \/ ParseComplete
    \/ \E value \in {"all", "brands", "suppliers", "specific"} : RadioChange(value)
    \/ \E selected \in SUBSET MenuCompanies : SelectChange(selected)
    \/ \E start \in PickerDays \cup {Null}, end \in PickerDays \cup {Null} :
           DateRangeChange(<<start, end>>)
    \/ ClearSelection

SpecSelection == InitFilter /\ [][NextSelection]_vars

\* C30: in every state reached through the radio group, the company Select
\* and Clear Selection, no company is selected unless the entity filter mode
\* is 'specific'; a Clear Selection step ends with mode 'all', no selected
\* company and the date range [null, null].
C30_SelectionOnlyWhenSpecific ==
    /\ [](entityFilterType # "specific" => selectedCompanies = {})
    /\ [][ClearSelection =>
            /\ entityFilterType' = "all"
            /\ selectedCompanies' = {}
            /\ dateRange' = <<Null, Null>>]_vars

\* C30 witness: with two companies in the menu the mode is 'brands', after
\* 'specific' had a selection; no company is selected and a date range is set.
C30_Witness ==
    /\ phase = "loaded"
    /\ Cardinality(MenuCompanies) = 2
    /\ entityFilterType = "brands"
    /\ selectedCompanies = {}
    /\ dateRange[1] # Null
    /\ dateRange[2] # Null

============================================================================
